---- MODULE Spec2Model ----
(***************************************************************************)
(* Driver reserve timers (src/pages/index.tsx): a store of driver rows,    *)
(* viewers that hold a local snapshot of it kept current by a change feed, *)
(* and the reserve / reset commands of each viewer.                        *)
(*                                                                         *)
(* JavaScript strings are sequences of one-character strings.  A nullable  *)
(* column holds Null, Txt(s) (a string) or Iso(t) (the ISO-8601 text of    *)
(* the instant t, in milliseconds since the epoch).                        *)
(***************************************************************************)
EXTENDS Integers, Sequences, FiniteSets, TLC

VARIABLES
    now,             \* the wall clock, ms since the epoch (new Date())
    store,           \* the drivers table: its rows by created_at ascending
    minted,          \* the ids the table has given out so far
    feed,            \* per viewer: change events emitted and not yet delivered
    drivers,         \* per viewer: useState<Driver[]>
    loading,         \* per viewer: useState(true)
    err,             \* per viewer: useState<string | null>
    fetch,           \* per viewer: the initial load's position
    reserveOpen,     \* per viewer: reserve modal shown
    reserveDriver,   \* per viewer: the row captured by openReserve, or Null
    reserveMinutes,  \* per viewer: the minutes field's text
    reserveNote,     \* per viewer: the note field's text
    pending,         \* per viewer: handlers suspended at an await
    notesTable,      \* the driver_notes table: its rows by created_at ascending
    profileOpen,     \* per viewer: profile modal shown
    profileDriver,   \* per viewer: the row captured by openProfile, or Null
    notes,           \* per viewer: useState<DriverNote[]>
    newNote,         \* per viewer: the text of the profile's note field
    tick,            \* per viewer: the ticker of the countdown
    missed,          \* per viewer: the change events the channel did not hand over
    fmtIn,           \* the argument handed to fmtTimeLeft
    fmtOut,          \* the string fmtTimeLeft returned for it
    last             \* the handler that ran last, and how it ended

vars == <<now, store, minted, feed, drivers, loading, err, fetch, reserveOpen,
          reserveDriver, reserveMinutes, reserveNote, pending, notesTable,
          profileOpen, profileDriver, notes, newNote, tick, missed, fmtIn, fmtOut,
          last>>

-----------------------------------------------------------------------------
(* Values *)

Null == [k |-> "null"]
Txt(s) == [k |-> "text", s |-> s]
Iso(t) == [k |-> "iso", ms |-> t]

\* JavaScript truthiness of a nullable string: null and "" are falsy.
Truthy(x) == x # Null /\ x # Txt(<<>>)

\* new Date(ms).toISOString()
toISOString(ms) == Iso(ms)

\* new Date(iso).getTime()
getTime(iso) == iso.ms

Max(a, b) == IF a >= b THEN a ELSE b

\* 60_000: milliseconds in one minute
MinuteMs == 60000

-----------------------------------------------------------------------------
(* Strings *)

Digit == <<"0", "1", "2", "3", "4", "5", "6", "7", "8", "9">>

IsDigit(c) == \E i \in 1..10 : Digit[i] = c

DigitVal(c) == (CHOOSE i \in 1..10 : Digit[i] = c) - 1

IsSpace(c) == c = " "

RECURSIVE TrimStart(_)
TrimStart(s) ==
    IF s # <<>> /\ IsSpace(Head(s)) THEN TrimStart(Tail(s)) ELSE s

RECURSIVE TrimEnd(_)
TrimEnd(s) ==
    IF s # <<>> /\ IsSpace(s[Len(s)])
    THEN TrimEnd(SubSeq(s, 1, Len(s) - 1))
    ELSE s

\* String.prototype.trim
Trim(s) == TrimEnd(TrimStart(s))

\* The longest prefix of s made of decimal digits.
RECURSIVE DigitPrefix(_)
DigitPrefix(s) ==
    IF s # <<>> /\ IsDigit(Head(s))
    THEN <<Head(s)>> \o DigitPrefix(Tail(s))
    ELSE <<>>

RECURSIVE DigitsValue(_)
DigitsValue(ds) ==
    IF ds = <<>> THEN 0
    ELSE 10 * DigitsValue(SubSeq(ds, 1, Len(ds) - 1)) + DigitVal(ds[Len(ds)])

\* parseInt(s, 10): leading white space is skipped, one sign is read, then the
\* longest run of digits; what follows the digits is ignored; no digit gives NaN.
ParseInt(s) ==
    LET t == TrimStart(s)
        neg == t # <<>> /\ Head(t) = "-"
        signed == t # <<>> /\ Head(t) \in {"-", "+"}
        body == IF signed THEN Tail(t) ELSE t
        ds == DigitPrefix(body)
    IN  IF ds = <<>> THEN [nan |-> TRUE, val |-> 0]
        ELSE [nan |-> FALSE,
              val |-> IF neg THEN 0 - DigitsValue(ds) ELSE DigitsValue(ds)]

\* Number.prototype.toString for a natural number
RECURSIVE NatToString(_)
NatToString(n) ==
    IF n < 10 THEN <<Digit[n + 1]>>
    ELSE NatToString(n \div 10) \o <<Digit[(n % 10) + 1]>>

\* String.prototype.padStart(width, fill) with a one-character fill
RECURSIVE PadStart(_, _, _)
PadStart(s, width, fill) ==
    IF Len(s) >= width THEN s ELSE PadStart(<<fill>> \o s, width, fill)

-----------------------------------------------------------------------------
(* Helpers of the page *)

\* fmtTimeLeft without the padStart of the seconds.
fmtTimeLeft_NoPad(msLeft) ==
    IF msLeft <= 0 THEN <<"0", ":", "0", "0">>
    ELSE LET s == msLeft \div 1000
             m == s \div 60
             ss == s % 60
         IN  NatToString(m) \o <<":">> \o NatToString(ss)

\* fmtTimeLeft(msLeft), the zero label included
fmtTimeLeft(msLeft) ==
    IF msLeft <= 0 THEN <<"0", ":", "0", "0">>
    ELSE LET s == msLeft \div 1000
             m == s \div 60
             ss == s % 60
         IN  NatToString(m) \o <<":">> \o PadStart(NatToString(ss), 2, "0")

\* Array.prototype.findIndex on the id; 0 stands for JavaScript's -1
FindIndex(rows, id) ==
    IF \E i \in 1..Len(rows) : rows[i].id = id
    THEN CHOOSE i \in 1..Len(rows) :
            /\ rows[i].id = id
            /\ \A j \in 1..(i - 1) : rows[j].id # id
    ELSE 0

\* Array.prototype.splice(idx, 1)
Splice1(rows, idx) ==
    SubSeq(rows, 1, idx - 1) \o SubSeq(rows, idx + 1, Len(rows))

\* HandleChange that pushes every incoming row, known or not.
HandleChange_AlwaysPush(prev, payload) ==
    IF payload.eventType = "DELETE"
    THEN LET idx == FindIndex(prev, payload.old.id)
         IN  IF idx # 0 THEN Splice1(prev, idx) ELSE prev
    ELSE Append(prev, payload.new)

\* HandleChange that takes a known row out and pushes the incoming one.
HandleChange_MoveToEnd(prev, payload) ==
    IF payload.eventType = "DELETE"
    THEN LET idx == FindIndex(prev, payload.old.id)
         IN  IF idx # 0 THEN Splice1(prev, idx) ELSE prev
    ELSE LET row == payload.new
             idx == FindIndex(prev, row.id)
         IN  IF idx # 0 THEN Append(Splice1(prev, idx), row) ELSE Append(prev, row)

\* HandleChange without the idx !== -1 test of the DELETE branch:
\* splice(-1, 1) takes the last row out.
HandleChange_SpliceUnchecked(prev, payload) ==
    IF payload.eventType = "DELETE"
    THEN LET idx == FindIndex(prev, payload.old.id)
         IN  IF idx # 0 THEN Splice1(prev, idx)
             ELSE SubSeq(prev, 1, Len(prev) - 1)
    ELSE LET row == payload.new
             idx == FindIndex(prev, row.id)
         IN  IF idx # 0 THEN [prev EXCEPT ![idx] = row] ELSE Append(prev, row)

\* HandleChange that leaves a known row as it is.
HandleChange_IgnoreKnown(prev, payload) ==
    IF payload.eventType = "DELETE"
    THEN LET idx == FindIndex(prev, payload.old.id)
         IN  IF idx # 0 THEN Splice1(prev, idx) ELSE prev
    ELSE LET row == payload.new
             idx == FindIndex(prev, row.id)
         IN  IF idx # 0 THEN prev ELSE Append(prev, row)

\* HandleChange that takes only the reservation columns of a known row from
\* the event.
HandleChange_ReserveColumnsOnly(prev, payload) ==
    IF payload.eventType = "DELETE"
    THEN LET idx == FindIndex(prev, payload.old.id)
         IN  IF idx # 0 THEN Splice1(prev, idx) ELSE prev
    ELSE LET row == payload.new
             idx == FindIndex(prev, row.id)
         IN  IF idx # 0
             THEN [prev EXCEPT ![idx] =
                      [f \in DOMAIN @ |->
                          IF f \in {"reserve_until", "reserve_started_at", "reserve_note"}
                          THEN row[f] ELSE @[f]]]
             ELSE Append(prev, row)

\* HandleChange that pushes the row of every INSERT event and looks for the
\* id on UPDATE events only.
HandleChange_PushInserts(prev, payload) ==
    IF payload.eventType = "DELETE"
    THEN LET idx == FindIndex(prev, payload.old.id)
         IN  IF idx # 0 THEN Splice1(prev, idx) ELSE prev
    ELSE LET row == payload.new
             idx == FindIndex(prev, row.id)
         IN  IF idx # 0 /\ payload.eventType = "UPDATE"
             THEN [prev EXCEPT ![idx] = row]
             ELSE Append(prev, row)

\* The callback handed to setDrivers by the realtime handler: the next
\* snapshot from the previous one and the change event.
HandleChange(prev, payload) ==
    IF payload.eventType = "DELETE"
    THEN LET idx == FindIndex(prev, payload.old.id)
         IN  IF idx # 0 THEN Splice1(prev, idx) ELSE prev
    ELSE LET row == payload.new
             idx == FindIndex(prev, row.id)
         IN  IF idx # 0 THEN [prev EXCEPT ![idx] = row] ELSE Append(prev, row)

\* RenderRow that counts the instant reserve_until itself as reserved.
RenderRow_Inclusive(d, t) ==
    LET hasUntil == Truthy(d.reserve_until)
        msLeft == IF hasUntil THEN getTime(d.reserve_until) - t ELSE 0
        active == hasUntil /\ msLeft >= 0
    IN  [msLeft |-> msLeft,
         active |-> active,
         label |-> IF active THEN fmtTimeLeft(msLeft) ELSE <<"-">>]

\* What a table row shows for driver record d at instant t.
RenderRow(d, t) ==
    LET hasUntil == Truthy(d.reserve_until)
        msLeft == IF hasUntil THEN getTime(d.reserve_until) - t ELSE 0
        active == hasUntil /\ msLeft > 0
    IN  [msLeft |-> msLeft,
         active |-> active,
         label |-> IF active THEN fmtTimeLeft(msLeft) ELSE <<"-">>]

\* NewUntil without the Math.max: a lapsed reserve_until is compounded.
NewUntil_NoMax(target, nowLocal, minutes) ==
    LET base == IF Truthy(target.reserve_until)
                THEN getTime(target.reserve_until)
                ELSE nowLocal
    IN  base + minutes * MinuteMs

\* NewUntil that adds the requested minutes to the time elapsed since the
\* reservation began, not to the time that remains.
NewUntil_OnElapsed(target, nowLocal, minutes) ==
    nowLocal + minutes * MinuteMs +
        (IF Truthy(target.reserve_until) /\ Truthy(target.reserve_started_at)
         THEN nowLocal - getTime(target.reserve_started_at)
         ELSE 0)

\* NewUntil that always starts from now: the remaining time is dropped.
NewUntil_FromNow(target, nowLocal, minutes) == nowLocal + minutes * MinuteMs

\* The instant confirmReserve writes to reserve_until.
NewUntil(target, nowLocal, minutes) ==
    LET base == IF Truthy(target.reserve_until)
                THEN getTime(target.reserve_until)
                ELSE nowLocal
    IN  Max(base, nowLocal) + minutes * MinuteMs

\* ReservePatch that keeps the row's note when none is supplied.
ReservePatch_KeepNote(target, nowLocal, minutes, note) ==
    [reserve_until |-> toISOString(NewUntil(target, nowLocal, minutes)),
     reserve_started_at |-> toISOString(nowLocal),
     reserve_note |-> IF Trim(note) # <<>> THEN Txt(Trim(note))
                      ELSE target.reserve_note]

\* The fields confirmReserve sends to the store.
ReservePatch(target, nowLocal, minutes, note) ==
    [reserve_until |-> toISOString(NewUntil(target, nowLocal, minutes)),
     reserve_started_at |-> toISOString(nowLocal),
     reserve_note |-> IF Trim(note) # <<>> THEN Txt(Trim(note)) ELSE Null]

\* ResetPatch of the first revision: reserve_until alone.
ResetPatch_UntilOnly == [reserve_until |-> Null]

\* The fields resetReserve sends to the store.
ResetPatch ==
    [reserve_until |-> Null, reserve_started_at |-> Null, reserve_note |-> Null]

\* The text confirmReserve parses: reserveMinutes || "15"
MinutesText(text) == IF text # <<>> THEN text ELSE <<"1", "5">>

\* MinutesAccepted without the minutes <= 0 test.
MinutesAccepted_AnyNumber(text) == ~ParseInt(MinutesText(text)).nan

\* minutes passes confirmReserve's validation
MinutesAccepted(text) ==
    LET minutes == ParseInt(MinutesText(text))
    IN  ~minutes.nan /\ minutes.val > 0

\* .limit(10) of openProfile, .slice(0, 10) of addProfileNote
NotesShown == 10

\* Array.prototype.slice(0, n)
Slice(s, n) == SubSeq(s, 1, IF Len(s) < n THEN Len(s) ELSE n)

Reverse(s) == [i \in 1..Len(s) |-> s[Len(s) + 1 - i]]

\* A driver_notes row as the table creates it: ids follow the order of creation.
NewNoteRow(table, driverId, body) ==
    [id |-> Len(table) + 1, driver_id |-> driverId, body |-> body]

\* .select("*").eq("driver_id", id).order("created_at", desc).limit(10)
SelectNotes(table, id) ==
    Slice(Reverse(SelectSeq(table, LAMBDA n : n.driver_id = id)), NotesShown)

\* PrependNote without the slice.
PrependNote_NoSlice(prev, data) == <<data>> \o prev

\* The callback addProfileNote hands to setNotes.
PrependNote(prev, data) == Slice(<<data>> \o prev, NotesShown)

\* NoteAccepted without the trim of the body.
NoteAccepted_Untrimmed(driver, text) == driver # Null /\ text # <<>>

\* addProfileNote goes on to the store: a profile is held and the body has
\* more than white space.
NoteAccepted(driver, text) == driver # Null /\ Trim(text) # <<>>

-----------------------------------------------------------------------------
(* Bounds and inputs *)

Viewers == {"v1", "v2"}

\* The viewer whose operator issues commands in Spec.
Solo == {"v1"}

\* The ids a drivers row can have.
DriverIds == {"d1", "d2", "d3"}

\* The clock moves in steps of ClockStepMs, MaxClockSteps times.
ClockStepMs == 5 * MinuteMs

MaxClockSteps == 2

\* No reservation is written that ends later than MaxUntilSteps clock steps.
MaxUntilSteps == 4

\* At most MaxFeed undelivered change events per viewer.
MaxFeed == 2

\* At most MaxPending suspended handlers per viewer.
MaxPending == 1

\* Texts typed into the minutes field.
MinuteTexts == {<<>>, <<"5">>, <<"0">>, <<"-", "5">>, <<"x">>, <<" ", "5", "x">>}

\* Texts typed into the note field.
NoteTexts == {<<" ">>, <<" ", "a", " ">>}

\* At most MaxNotes rows in driver_notes.
MaxNotes == 12

\* The ticker is followed for MaxTicks ticks.
MaxTicks == 2

\* How many change events the channel may lose on the way to one viewer.
MaxMissed == 1

\* Texts left in a location field.
FieldTexts == {<<>>, <<"A">>}

\* fmtTimeLeft is tried on the multiples of FmtStepMs from -2 to MaxFmtSteps
\* steps, and on FmtCases.
FmtStepMs == 500

MaxFmtSteps == 7400

FmtCases == {1, 999, 1001, 5000, 59999, 90000, 3599999, 3660000}

FmtArgs == {k * FmtStepMs : k \in (0 - 2)..MaxFmtSteps} \cup FmtCases

\* error.message of a failed store call
ErrMsg == Txt(<<"E">>)

-----------------------------------------------------------------------------
(* The store *)

\* A drivers row as the table creates it.
NewRow(id) ==
    [id |-> id, location |-> Null, available_time |-> Null,
     reserve_until |-> Null, reserve_started_at |-> Null, reserve_note |-> Null]

\* Patched that writes the whole row: a column the patch does not name is
\* nulled.
Patched_Overwrite(row, patch) ==
    [f \in DOMAIN row |->
        IF f \in DOMAIN patch THEN patch[f] ELSE IF f = "id" THEN row[f] ELSE Null]

\* UPDATE ... SET patch: the patched columns replaced, the others kept.
Patched(row, patch) ==
    [f \in DOMAIN row |-> IF f \in DOMAIN patch THEN patch[f] ELSE row[f]]

\* The table after .update(patch).eq("id", id).
TableUpdate(table, id, patch) ==
    LET idx == FindIndex(table, id)
    IN  IF idx = 0 THEN table
        ELSE [table EXCEPT ![idx] = Patched(table[idx], patch)]

\* The change events .update(patch).eq("id", id) makes the table emit.
UpdateEvents(table, id, patch) ==
    LET idx == FindIndex(table, id)
    IN  IF idx = 0 THEN <<>>
        ELSE <<[eventType |-> "UPDATE",
                new |-> Patched(table[idx], patch),
                old |-> [id |-> id]]>>

\* The viewers whose page is open: they hold a subscription to the feed.
Mounted == {w \in Viewers : fetch[w].phase # "unmounted"}

FeedsHaveRoom == \A w \in Mounted : Len(feed[w]) < MaxFeed

\* Every subscribed viewer is sent the events, in the order of emission.
Broadcast(events) ==
    feed' = [w \in Viewers |-> IF w \in Mounted THEN feed[w] \o events ELSE feed[w]]

\* The record of the handler that ran: its name, its viewer, the driver id it
\* was about and how it ended.
Ran(op, v, id, outcome) ==
    last' = [op |-> op, v |-> v, id |-> id, outcome |-> outcome]

-----------------------------------------------------------------------------
(* Initial state: the page as constructed, the table seeded *)

Init ==
    /\ now = 0
    /\ store = <<NewRow("d1"), NewRow("d2")>>
    /\ minted = {"d1", "d2"}
    /\ feed = [v \in Viewers |-> <<>>]
    /\ drivers = [v \in Viewers |-> <<>>]
    /\ loading = [v \in Viewers |-> TRUE]
    /\ err = [v \in Viewers |-> Null]
    /\ fetch = [v \in Viewers |->
                  [phase |-> IF v \in Solo THEN "start" ELSE "unmounted",
                   failed |-> FALSE, data |-> <<>>]]
    /\ reserveOpen = [v \in Viewers |-> FALSE]
    /\ reserveDriver = [v \in Viewers |-> Null]
    /\ reserveMinutes = [v \in Viewers |-> <<"1", "5">>]
    /\ reserveNote = [v \in Viewers |-> <<>>]
    /\ pending = [v \in Viewers |-> {}]
    /\ fmtIn = 0
    /\ fmtOut = <<>>
    /\ last = [op |-> "init", v |-> "", id |-> "", outcome |-> ""]
    /\ notesTable = <<>>
    /\ profileOpen = [v \in Viewers |-> FALSE]
    /\ profileDriver = [v \in Viewers |-> Null]
    /\ notes = [v \in Viewers |-> <<>>]
    /\ newNote = [v \in Viewers |-> <<>>]
    /\ tick = [v \in Viewers |-> 0]
    /\ missed = [v \in Viewers |-> {}]

modal == <<reserveOpen, reserveDriver, reserveMinutes, reserveNote>>
fmt == <<fmtIn, fmtOut, minted>>
profile == <<profileOpen, profileDriver, notes, newNote>>
aside == <<notesTable, profile, tick, missed>>

-----------------------------------------------------------------------------
(* The environment *)

\* Wall-clock time passes.
ClockAdvance(stepMs) ==
    /\ now + stepMs <= MaxClockSteps * ClockStepMs
    /\ now' = now + stepMs
    /\ Ran("clock", "", "", "")
    /\ UNCHANGED <<store, feed, drivers, loading, err, fetch, modal, pending, fmt>>
    /\ UNCHANGED aside

-----------------------------------------------------------------------------
(* Initial load *)

\* The select of the initial load reaches the store (or fails).
FetchRead(v, ok) ==
    /\ fetch[v].phase = "start"
    /\ fetch' = [fetch EXCEPT ![v] =
                    [phase |-> "inflight", failed |-> ~ok,
                     data |-> IF ok THEN store ELSE <<>>]]
    /\ Ran("fetchRead", v, "", IF ok THEN "ok" ELSE "error")
    /\ UNCHANGED <<now, store, feed, drivers, loading, err, modal, pending, fmt>>
    /\ UNCHANGED aside

\* The initial load resumes after its await.
FetchApply(v) ==
    /\ fetch[v].phase = "inflight"
    /\ err' = [err EXCEPT ![v] = IF fetch[v].failed THEN ErrMsg ELSE @]
    /\ drivers' = [drivers EXCEPT ![v] = fetch[v].data]
    /\ loading' = [loading EXCEPT ![v] = FALSE]
    /\ fetch' = [fetch EXCEPT ![v] = [phase |-> "done", failed |-> @.failed, data |-> <<>>]]
    /\ Ran("fetchApply", v, "", IF fetch[v].failed THEN "error" ELSE "ok")
    /\ UNCHANGED <<now, store, feed, modal, pending, fmt>>
    /\ UNCHANGED aside

-----------------------------------------------------------------------------
(* Realtime *)

\* The realtime handler runs on the oldest undelivered change event.
Deliver(v) ==
    /\ feed[v] # <<>>
    /\ drivers' = [drivers EXCEPT ![v] = HandleChange(@, Head(feed[v]))]
    /\ feed' = [feed EXCEPT ![v] = Tail(@)]
    /\ Ran("deliver", v,
           IF Head(feed[v]).eventType = "DELETE"
           THEN Head(feed[v]).old.id ELSE Head(feed[v]).new.id,
           Head(feed[v]).eventType)
    /\ UNCHANGED <<now, store, loading, err, fetch, modal, pending, fmt>>
    /\ UNCHANGED aside

\* The channel loses the oldest undelivered change event: the handler is
\* never called for it, and nothing on the page records the gap.
Miss(v) ==
    /\ feed[v] # <<>>
    /\ Cardinality(missed[v]) < MaxMissed
    /\ Cardinality(missed[v]) < MaxMissed
    /\ feed' = [feed EXCEPT ![v] = Tail(@)]
    /\ missed' = [missed EXCEPT ![v] = @ \cup {Head(feed[v])}]
    /\ Ran("miss", v,
           IF Head(feed[v]).eventType = "DELETE"
           THEN Head(feed[v]).old.id ELSE Head(feed[v]).new.id,
           Head(feed[v]).eventType)
    /\ UNCHANGED <<now, store, drivers, loading, err, fetch, modal, pending, fmt>>
    /\ UNCHANGED <<notesTable, profile, tick>>

-----------------------------------------------------------------------------
(* Reserve modal *)

\* openReserve(d), d the i-th row shown
OpenReserve(v, i) ==
    /\ i \in 1..Len(drivers[v])
    /\ reserveDriver' = [reserveDriver EXCEPT ![v] = drivers[v][i]]
    /\ reserveMinutes' = [reserveMinutes EXCEPT ![v] = <<"1", "5">>]
    /\ reserveNote' = [reserveNote EXCEPT ![v] = <<>>]
    /\ reserveOpen' = [reserveOpen EXCEPT ![v] = TRUE]
    /\ Ran("openReserve", v, drivers[v][i].id, "")
    /\ UNCHANGED <<now, store, feed, drivers, loading, err, fetch, pending, fmt>>
    /\ UNCHANGED aside

\* The modal is rendered: reserveOpen && reserveDriver
ModalShown(v) == reserveOpen[v] /\ reserveDriver[v] # Null

\* onChange of the minutes field
SetReserveMinutes(v, text) ==
    /\ ModalShown(v)
    /\ reserveMinutes' = [reserveMinutes EXCEPT ![v] = text]
    /\ Ran("setReserveMinutes", v, "", "")
    /\ UNCHANGED <<now, store, feed, drivers, loading, err, fetch, pending, fmt,
                   reserveOpen, reserveDriver, reserveNote>>
    /\ UNCHANGED aside

\* onChange of the note field
SetReserveNote(v, text) ==
    /\ ModalShown(v)
    /\ reserveNote' = [reserveNote EXCEPT ![v] = text]
    /\ Ran("setReserveNote", v, "", "")
    /\ UNCHANGED <<now, store, feed, drivers, loading, err, fetch, pending, fmt,
                   reserveOpen, reserveDriver, reserveMinutes>>
    /\ UNCHANGED aside

\* The modal's Cancel button
CancelReserve(v) ==
    /\ ModalShown(v)
    /\ reserveOpen' = [reserveOpen EXCEPT ![v] = FALSE]
    /\ Ran("cancelReserve", v, "", "")
    /\ UNCHANGED <<now, store, feed, drivers, loading, err, fetch, pending, fmt,
                   reserveDriver, reserveMinutes, reserveNote>>
    /\ UNCHANGED aside

\* A handler suspended at its await of a store call.
Suspended(op, id, failed) == [op |-> op, id |-> id, failed |-> failed]

\* confirmReserve suspended at the await of its update: the note it will add
\* to driver_notes is the one in the field when it was called.
SuspendedReserve(id, failed, note) ==
    [op |-> "confirmReserve", id |-> id, failed |-> failed, note |-> note]

\* ConfirmReserve that takes its base from the stored row, not from the
\* snapshot.
ConfirmReserve_FromStore(v, ok) ==
    /\ ModalShown(v)
    /\ LET id == reserveDriver[v].id
           minutes == ParseInt(MinutesText(reserveMinutes[v]))
           idx == FindIndex(store, id)
           patch == ReservePatch(store[idx], now, minutes.val, reserveNote[v])
       IN  IF ~MinutesAccepted(reserveMinutes[v])
           THEN /\ Ran("confirmReserve", v, id, "rejected")
                /\ UNCHANGED <<store, feed, pending>>
           ELSE IF idx = 0
           THEN /\ Ran("confirmReserve", v, id, "notarget")
                /\ UNCHANGED <<store, feed, pending>>
           ELSE /\ Cardinality(pending[v]) < MaxPending
                /\ \A p \in pending[v] : ~(p.op = "confirmReserve" /\ p.id = id)
                /\ pending' = [pending EXCEPT ![v] =
                                  @ \cup {SuspendedReserve(id, ~ok, Trim(reserveNote[v]))}]
                /\ IF ok
                   THEN /\ FeedsHaveRoom
                        /\ getTime(patch.reserve_until) <= MaxUntilSteps * ClockStepMs
                        /\ store' = TableUpdate(store, id, patch)
                        /\ Broadcast(UpdateEvents(store, id, patch))
                        /\ Ran("confirmReserve", v, id, "written")
                   ELSE /\ Ran("confirmReserve", v, id, "failed")
                        /\ UNCHANGED <<store, feed>>
    /\ UNCHANGED <<now, drivers, loading, err, fetch, modal, fmt>>
    /\ UNCHANGED aside

\* ConfirmReserve that works on the row openReserve captured, not on the
\* record of the snapshot.
ConfirmReserve_FromCaptured(v, ok) ==
    /\ ModalShown(v)
    /\ LET id == reserveDriver[v].id
           minutes == ParseInt(MinutesText(reserveMinutes[v]))
           patch == ReservePatch(reserveDriver[v], now, minutes.val, reserveNote[v])
       IN  IF ~MinutesAccepted(reserveMinutes[v])
           THEN /\ Ran("confirmReserve", v, id, "rejected")
                /\ UNCHANGED <<store, feed, pending>>
           ELSE /\ Cardinality(pending[v]) < MaxPending
                /\ \A p \in pending[v] : ~(p.op = "confirmReserve" /\ p.id = id)
                /\ pending' = [pending EXCEPT ![v] =
                                  @ \cup {SuspendedReserve(id, ~ok, Trim(reserveNote[v]))}]
                /\ IF ok
                   THEN /\ FeedsHaveRoom
                        /\ getTime(patch.reserve_until) <= MaxUntilSteps * ClockStepMs
                        /\ store' = TableUpdate(store, id, patch)
                        /\ Broadcast(UpdateEvents(store, id, patch))
                        /\ Ran("confirmReserve", v, id, "written")
                   ELSE /\ Ran("confirmReserve", v, id, "failed")
                        /\ UNCHANGED <<store, feed>>
    /\ UNCHANGED <<now, drivers, loading, err, fetch, modal, fmt>>
    /\ UNCHANGED aside

\* confirmReserve up to its first await.  ok: the store accepts the update.
ConfirmReserve(v, ok) ==
    /\ ModalShown(v)
    /\ LET id == reserveDriver[v].id
           minutes == ParseInt(MinutesText(reserveMinutes[v]))
           idx == FindIndex(drivers[v], id)
           patch == ReservePatch(drivers[v][idx], now, minutes.val, reserveNote[v])
       IN  IF ~MinutesAccepted(reserveMinutes[v])
           THEN /\ Ran("confirmReserve", v, id, "rejected")
                /\ UNCHANGED <<store, feed, pending>>
           ELSE IF idx = 0
           THEN /\ Ran("confirmReserve", v, id, "notarget")
                /\ UNCHANGED <<store, feed, pending>>
           ELSE /\ Cardinality(pending[v]) < MaxPending
                /\ \A p \in pending[v] : ~(p.op = "confirmReserve" /\ p.id = id)
                /\ pending' = [pending EXCEPT ![v] =
                                  @ \cup {SuspendedReserve(id, ~ok, Trim(reserveNote[v]))}]
                /\ IF ok
                   THEN /\ FeedsHaveRoom
                        /\ getTime(patch.reserve_until) <= MaxUntilSteps * ClockStepMs
                        /\ store' = TableUpdate(store, id, patch)
                        /\ Broadcast(UpdateEvents(store, id, patch))
                        /\ Ran("confirmReserve", v, id, "written")
                   ELSE /\ Ran("confirmReserve", v, id, "failed")
                        /\ UNCHANGED <<store, feed>>
    /\ UNCHANGED <<now, drivers, loading, err, fetch, modal, fmt>>
    /\ UNCHANGED aside

\* ConfirmReserveResume that files the note whether or not the update of the
\* driver went through.
ConfirmReserveResume_NoteAnyway(v, p, noteOk) ==
    /\ p \in pending[v]
    /\ p.op = "confirmReserve"
    /\ IF p.note # <<>>
       THEN /\ Len(notesTable) < MaxNotes
            /\ notesTable' = IF noteOk
                             THEN Append(notesTable, NewNoteRow(notesTable, p.id, p.note))
                             ELSE notesTable
            /\ err' = [err EXCEPT ![v] = IF p.failed THEN ErrMsg ELSE @]
            /\ pending' = [pending EXCEPT ![v] =
                              (@ \ {p}) \cup {Suspended("confirmReserveNote", p.id, ~noteOk)}]
            /\ Ran("confirmReserveResume", v, p.id,
                   IF p.failed THEN "error" ELSE IF noteOk THEN "noted" ELSE "notefailed")
            /\ UNCHANGED reserveOpen
       ELSE /\ err' = [err EXCEPT ![v] = IF p.failed THEN ErrMsg ELSE @]
            /\ reserveOpen' = [reserveOpen EXCEPT ![v] = p.failed /\ @]
            /\ pending' = [pending EXCEPT ![v] = @ \ {p}]
            /\ Ran("confirmReserveResume", v, p.id, IF p.failed THEN "error" ELSE "ok")
            /\ UNCHANGED notesTable
    /\ UNCHANGED <<now, store, feed, drivers, loading, fetch, fmt,
                   reserveDriver, reserveMinutes, reserveNote, profile, tick, missed>>

\* confirmReserve from its first await to its second: a failed update is
\* reported and ends the handler; a note, when one was supplied, is inserted
\* into driver_notes (noteOk: the store accepts the insert).
ConfirmReserveResume(v, p, noteOk) ==
    /\ p \in pending[v]
    /\ p.op = "confirmReserve"
    /\ IF p.failed
       THEN /\ err' = [err EXCEPT ![v] = ErrMsg]
            /\ pending' = [pending EXCEPT ![v] = @ \ {p}]
            /\ Ran("confirmReserveResume", v, p.id, "error")
            /\ UNCHANGED <<reserveOpen, notesTable>>
       ELSE IF p.note # <<>>
       THEN /\ Len(notesTable) < MaxNotes
            /\ notesTable' = IF noteOk
                             THEN Append(notesTable, NewNoteRow(notesTable, p.id, p.note))
                             ELSE notesTable
            /\ pending' = [pending EXCEPT ![v] =
                              (@ \ {p}) \cup {Suspended("confirmReserveNote", p.id, ~noteOk)}]
            /\ Ran("confirmReserveResume", v, p.id, IF noteOk THEN "noted" ELSE "notefailed")
            /\ UNCHANGED <<reserveOpen, err>>
       ELSE /\ reserveOpen' = [reserveOpen EXCEPT ![v] = FALSE]
            /\ pending' = [pending EXCEPT ![v] = @ \ {p}]
            /\ Ran("confirmReserveResume", v, p.id, "ok")
            /\ UNCHANGED <<err, notesTable>>
    /\ UNCHANGED <<now, store, feed, drivers, loading, fetch, fmt,
                   reserveDriver, reserveMinutes, reserveNote, profile, tick, missed>>

\* confirmReserve from the await of its note insert on: whatever the insert
\* came to, the modal is closed.
ConfirmReserveClose(v, p) ==
    /\ p \in pending[v]
    /\ p.op = "confirmReserveNote"
    /\ pending' = [pending EXCEPT ![v] = @ \ {p}]
    /\ reserveOpen' = [reserveOpen EXCEPT ![v] = FALSE]
    /\ Ran("confirmReserveClose", v, p.id, IF p.failed THEN "error" ELSE "ok")
    /\ UNCHANGED <<now, store, feed, drivers, loading, err, fetch, fmt,
                   reserveDriver, reserveMinutes, reserveNote, aside>>

\* resetReserve(d.id), d the i-th row shown, up to its await.
ResetReserve(v, i, ok) ==
    /\ i \in 1..Len(drivers[v])
    /\ LET id == drivers[v][i].id
       IN  /\ Cardinality(pending[v]) < MaxPending
           /\ Suspended("resetReserve", id, ~ok) \notin pending[v]
           /\ pending' = [pending EXCEPT ![v] =
                             @ \cup {Suspended("resetReserve", id, ~ok)}]
           /\ IF ok
              THEN /\ FeedsHaveRoom
                   /\ store' = TableUpdate(store, id, ResetPatch)
                   /\ Broadcast(UpdateEvents(store, id, ResetPatch))
                   /\ Ran("resetReserve", v, id, "written")
              ELSE /\ Ran("resetReserve", v, id, "failed")
                   /\ UNCHANGED <<store, feed>>
    /\ UNCHANGED <<now, drivers, loading, err, fetch, modal, fmt>>
    /\ UNCHANGED aside

\* ResetReserveResume that clears the row in the snapshot once the store has
\* taken the reset.
ResetReserveResume_Optimistic(v, p) ==
    /\ p \in pending[v]
    /\ p.op = "resetReserve"
    /\ pending' = [pending EXCEPT ![v] = @ \ {p}]
    /\ err' = [err EXCEPT ![v] = IF p.failed THEN ErrMsg ELSE @]
    /\ drivers' = [drivers EXCEPT ![v] =
                      IF p.failed THEN @ ELSE TableUpdate(@, p.id, ResetPatch)]
    /\ Ran("resetReserveResume", v, p.id, IF p.failed THEN "error" ELSE "ok")
    /\ UNCHANGED <<now, store, feed, loading, fetch, modal, fmt>>
    /\ UNCHANGED aside

\* resetReserve from its await on.
ResetReserveResume(v, p) ==
    /\ p \in pending[v]
    /\ p.op = "resetReserve"
    /\ pending' = [pending EXCEPT ![v] = @ \ {p}]
    /\ err' = [err EXCEPT ![v] = IF p.failed THEN ErrMsg ELSE @]
    /\ Ran("resetReserveResume", v, p.id, IF p.failed THEN "error" ELSE "ok")
    /\ UNCHANGED <<now, store, feed, drivers, loading, fetch, modal, fmt>>
    /\ UNCHANGED aside

-----------------------------------------------------------------------------
(* Editing a text column *)

\* updateField(d.id, field, value), d the i-th row shown, up to its await.
UpdateField(v, i, field, value, ok) ==
    /\ i \in 1..Len(drivers[v])
    /\ LET id == drivers[v][i].id
           patch == [f \in {field} |-> IF value # <<>> THEN Txt(value) ELSE Null]
       IN  /\ Cardinality(pending[v]) < MaxPending
           /\ Suspended("updateField", id, ~ok) \notin pending[v]
           /\ pending' = [pending EXCEPT ![v] =
                             @ \cup {Suspended("updateField", id, ~ok)}]
           /\ IF ok
              THEN /\ FeedsHaveRoom
                   /\ store' = TableUpdate(store, id, patch)
                   /\ Broadcast(UpdateEvents(store, id, patch))
                   /\ Ran("updateField", v, id, "written")
              ELSE /\ Ran("updateField", v, id, "failed")
                   /\ UNCHANGED <<store, feed>>
    /\ UNCHANGED <<now, drivers, loading, err, fetch, modal, fmt>>
    /\ UNCHANGED aside

\* updateField from its await on.
UpdateFieldResume(v, p) ==
    /\ p \in pending[v]
    /\ p.op = "updateField"
    /\ pending' = [pending EXCEPT ![v] = @ \ {p}]
    /\ err' = [err EXCEPT ![v] = IF p.failed THEN ErrMsg ELSE @]
    /\ Ran("updateFieldResume", v, p.id, IF p.failed THEN "error" ELSE "ok")
    /\ UNCHANGED <<now, store, feed, drivers, loading, fetch, modal, fmt>>
    /\ UNCHANGED aside

-----------------------------------------------------------------------------
(* Profile modal: the notes of a driver *)

\* The profile modal is rendered: profileOpen && profileDriver
ProfileShown(v) == profileOpen[v] /\ profileDriver[v] # Null

\* openProfile(d), d the i-th row shown, up to its await.  ok: the select of
\* the driver's notes succeeds.
OpenProfile(v, i, ok) ==
    /\ i \in 1..Len(drivers[v])
    /\ Cardinality(pending[v]) < MaxPending
    /\ LET id == drivers[v][i].id
           rows == IF ok THEN SelectNotes(notesTable, id) ELSE <<>>
       IN  /\ \A p \in pending[v] : p.op # "openProfile"
           /\ pending' = [pending EXCEPT ![v] =
                             @ \cup {[op |-> "openProfile", id |-> id,
                                      failed |-> ~ok, rows |-> rows]}]
           /\ Ran("openProfile", v, id, IF ok THEN "read" ELSE "failed")
    /\ profileDriver' = [profileDriver EXCEPT ![v] = drivers[v][i]]
    /\ profileOpen' = [profileOpen EXCEPT ![v] = TRUE]
    /\ newNote' = [newNote EXCEPT ![v] = <<>>]
    /\ UNCHANGED <<now, store, feed, drivers, loading, err, fetch, modal, fmt,
                   notesTable, notes, tick, missed>>

\* openProfile from its await on: (data as DriverNote[]) ?? [], data being
\* null exactly when the select failed.
OpenProfileResume(v, p) ==
    /\ p \in pending[v]
    /\ p.op = "openProfile"
    /\ pending' = [pending EXCEPT ![v] = @ \ {p}]
    /\ notes' = [notes EXCEPT ![v] = IF p.failed THEN <<>> ELSE p.rows]
    /\ Ran("openProfileResume", v, p.id, IF p.failed THEN "error" ELSE "ok")
    /\ UNCHANGED <<now, store, feed, drivers, loading, err, fetch, modal, fmt,
                   notesTable, profileOpen, profileDriver, newNote, tick, missed>>

\* onChange of the profile's note field
SetNewNote(v, text) ==
    /\ ProfileShown(v)
    /\ newNote' = [newNote EXCEPT ![v] = text]
    /\ Ran("setNewNote", v, "", "")
    /\ UNCHANGED <<now, store, feed, drivers, loading, err, fetch, modal, fmt,
                   pending, notesTable, profileOpen, profileDriver, notes, tick, missed>>

\* The profile's Close button
CloseProfile(v) ==
    /\ ProfileShown(v)
    /\ profileOpen' = [profileOpen EXCEPT ![v] = FALSE]
    /\ Ran("closeProfile", v, "", "")
    /\ UNCHANGED <<now, store, feed, drivers, loading, err, fetch, modal, fmt,
                   pending, notesTable, profileDriver, notes, newNote, tick, missed>>

\* addProfileNote up to its await.  ok: the store accepts the insert and
\* returns the row.
AddProfileNote(v, ok) ==
    /\ IF ~NoteAccepted(profileDriver[v], newNote[v])
       THEN /\ Ran("addProfileNote", v, "", "rejected")
            /\ UNCHANGED <<notesTable, pending>>
       ELSE LET id == profileDriver[v].id
                row == NewNoteRow(notesTable, id, Trim(newNote[v]))
            IN  /\ Cardinality(pending[v]) < MaxPending
                /\ Len(notesTable) < MaxNotes
                /\ \A p \in pending[v] : p.op # "addProfileNote"
                /\ notesTable' = IF ok THEN Append(notesTable, row) ELSE notesTable
                /\ pending' = [pending EXCEPT ![v] =
                                  @ \cup {[op |-> "addProfileNote", id |-> id,
                                           failed |-> ~ok,
                                           data |-> IF ok THEN row ELSE Null]}]
                /\ Ran("addProfileNote", v, id, IF ok THEN "written" ELSE "failed")
    /\ UNCHANGED <<now, store, feed, drivers, loading, err, fetch, modal, fmt,
                   profile, tick, missed>>

\* addProfileNote from its await on: if (!error && data) ...
AddProfileNoteResume(v, p) ==
    /\ p \in pending[v]
    /\ p.op = "addProfileNote"
    /\ pending' = [pending EXCEPT ![v] = @ \ {p}]
    /\ IF ~p.failed /\ p.data # Null
       THEN /\ notes' = [notes EXCEPT ![v] = PrependNote(@, p.data)]
            /\ newNote' = [newNote EXCEPT ![v] = <<>>]
       ELSE UNCHANGED <<notes, newNote>>
    /\ Ran("addProfileNoteResume", v, p.id, IF p.failed THEN "error" ELSE "ok")
    /\ UNCHANGED <<now, store, feed, drivers, loading, err, fetch, modal, fmt,
                   notesTable, profileOpen, profileDriver, tick, missed>>

-----------------------------------------------------------------------------
(* Ticking *)

\* Tick that also clears, in the snapshot, the reservations that have lapsed.
Tick_ClearsLapsed(v) ==
    /\ v \in Mounted
    /\ tick[v] < MaxTicks
    /\ tick' = [tick EXCEPT ![v] = (@ + 1) % 100000]
    /\ drivers' = [drivers EXCEPT ![v] =
                      [i \in 1..Len(@) |->
                          IF Truthy(@[i].reserve_until) /\ getTime(@[i].reserve_until) <= now
                          THEN Patched(@[i], ResetPatch)
                          ELSE @[i]]]
    /\ Ran("tick", v, "", "")
    /\ UNCHANGED <<now, store, feed, loading, err, fetch, modal, fmt,
                   pending, notesTable, profile, missed>>

\* The callback of setInterval: setTick((t) => (t + 1) % 100000)
Tick(v) ==
    /\ v \in Mounted
    /\ tick[v] < MaxTicks
    /\ tick' = [tick EXCEPT ![v] = (@ + 1) % 100000]
    /\ Ran("tick", v, "", "")
    /\ UNCHANGED <<now, store, feed, drivers, loading, err, fetch, modal, fmt,
                   pending, notesTable, profile, missed>>

-----------------------------------------------------------------------------
(* Rows created and removed out of band *)

\* insert into public.drivers: the row gets an id never given out before.
ForeignInsert(id) ==
    /\ id \notin minted
    /\ FeedsHaveRoom
    /\ minted' = minted \cup {id}
    /\ store' = Append(store, NewRow(id))
    /\ Broadcast(<<[eventType |-> "INSERT", new |-> NewRow(id), old |-> [id |-> id]]>>)
    /\ Ran("foreignInsert", "", id, "")
    /\ UNCHANGED <<now, drivers, loading, err, fetch, modal, pending, fmtIn, fmtOut>>
    /\ UNCHANGED aside

\* delete from public.drivers: the DELETE event carries the old row's id.
ForeignDelete(id) ==
    /\ FindIndex(store, id) # 0
    /\ FeedsHaveRoom
    /\ store' = Splice1(store, FindIndex(store, id))
    /\ Broadcast(<<[eventType |-> "DELETE", new |-> Null, old |-> [id |-> id]]>>)
    /\ Ran("foreignDelete", "", id, "")
    /\ UNCHANGED <<now, drivers, loading, err, fetch, modal, pending, fmt>>
    /\ UNCHANGED aside

-----------------------------------------------------------------------------
(* fmtTimeLeft on its own *)

\* fmtTimeLeft is called on the argument chosen.
FmtCall ==
    /\ fmtOut = <<>>
    /\ fmtOut' = fmtTimeLeft(fmtIn)
    /\ Ran("fmtTimeLeft", "", "", "")
    /\ UNCHANGED <<now, store, minted, feed, drivers, loading, err, fetch, modal,
                   pending, fmtIn>>
    /\ UNCHANGED aside

-----------------------------------------------------------------------------
(* The reservation system: one operator at a viewer of the seeded table,   *)
(* every store call succeeding                                             *)

Next ==
    \/ ClockAdvance(ClockStepMs)
    \/ \E v \in Solo, ok \in {TRUE} : FetchRead(v, ok)
    \/ \E v \in Solo : FetchApply(v)
    \/ \E v \in Solo : Deliver(v)
    \/ \E v \in Solo : \E i \in 1..Len(drivers[v]) : OpenReserve(v, i)
    \/ \E v \in Solo, text \in MinuteTexts : SetReserveMinutes(v, text)
    \/ \E v \in Solo, text \in NoteTexts : SetReserveNote(v, text)
    \/ \E v \in Solo : CancelReserve(v)
    \/ \E v \in Solo, ok \in {TRUE} : ConfirmReserve(v, ok)
    \/ \E v \in Solo : \E p \in pending[v] : ConfirmReserveResume(v, p, TRUE)
    \/ \E v \in Solo : \E p \in pending[v] : ConfirmReserveClose(v, p)
    \/ \E v \in Solo, ok \in {TRUE} : \E i \in 1..Len(drivers[v]) :
          ResetReserve(v, i, ok)
    \/ \E v \in Solo, p \in [op : {"resetReserve"}, id : DriverIds, failed : BOOLEAN] :
          ResetReserveResume(v, p)

Spec == Init /\ [][Next]_vars

-----------------------------------------------------------------------------
(* The reserve and reset commands on a loaded page: the viewer's snapshot  *)
(* in step with the table, the reserve modal open on one of its rows with  *)
(* the fields as the operator typed them (a minutes text over the default, *)
(* or a note, or neither)                                                  *)

\* The reservation columns of a row: none, or one that began a clock step
\* before the epoch, ends at a clock step and carries a note.
Reservations ==
    {[reserve_until |-> Null, reserve_started_at |-> Null, reserve_note |-> Null]} \cup
    {[reserve_until |-> Iso(k * ClockStepMs), reserve_started_at |-> Iso(0 - ClockStepMs),
      reserve_note |-> Txt(<<"b">>)] : k \in 0..MaxClockSteps}

InitReserve ==
    /\ now \in {k * ClockStepMs : k \in 0..MaxClockSteps}
    /\ \E r1 \in Reservations, r2 \in Reservations :
          store = <<Patched(NewRow("d1"), r1), Patched(NewRow("d2"), r2)>>
    /\ minted = {"d1", "d2"}
    /\ feed = [v \in Viewers |-> <<>>]
    /\ drivers = [v \in Viewers |-> IF v \in Solo THEN store ELSE <<>>]
    /\ loading = [v \in Viewers |-> v \notin Solo]
    /\ err = [v \in Viewers |-> Null]
    /\ fetch = [v \in Viewers |->
                  [phase |-> IF v \in Solo THEN "done" ELSE "unmounted",
                   failed |-> FALSE, data |-> <<>>]]
    /\ reserveOpen = [v \in Viewers |-> v \in Solo]
    /\ \E i \in 1..Len(store) :
          reserveDriver = [v \in Viewers |-> IF v \in Solo THEN store[i] ELSE Null]
    /\ \E text \in MinuteTexts \cup {<<"1", "5">>}, note \in NoteTexts \cup {<<>>} :
          /\ text = <<"1", "5">> \/ note = <<>>
          /\ reserveMinutes = [v \in Viewers |-> IF v \in Solo THEN text ELSE <<"1", "5">>]
          /\ reserveNote = [v \in Viewers |-> IF v \in Solo THEN note ELSE <<>>]
    /\ pending = [v \in Viewers |-> {}]
    /\ fmtIn = 0
    /\ fmtOut = <<>>
    /\ last = [op |-> "init", v |-> "", id |-> "", outcome |-> ""]
    /\ notesTable = [i \in 1..(MaxNotes - 1) |->
                        [id |-> i, driver_id |-> "d1", body |-> <<"b">>]]
    /\ Init!18 /\ Init!19 /\ Init!20 /\ Init!21 /\ Init!22 /\ Init!23

NextReserve ==
    \/ \E v \in Solo : Deliver(v)
    \/ \E v \in Solo : ConfirmReserve(v, TRUE)
    \/ \E v \in Solo : \E p \in pending[v] : ConfirmReserveResume(v, p, TRUE)
    \/ \E v \in Solo : \E p \in pending[v] : ConfirmReserveClose(v, p)
    \/ \E v \in Solo : \E i \in 1..Len(drivers[v]) : ResetReserve(v, i, TRUE)
    \/ \E v \in Solo, p \in [op : {"resetReserve"}, id : DriverIds, failed : {FALSE}] :
          ResetReserveResume(v, p)

SpecReserve == InitReserve /\ [][NextReserve]_vars

-----------------------------------------------------------------------------
(* fmtTimeLeft over its arguments *)

InitFmt ==
    /\ Init!1 /\ Init!2 /\ Init!3 /\ Init!4 /\ Init!5 /\ Init!6 /\ Init!7
    /\ Init!8 /\ Init!9 /\ Init!10 /\ Init!11 /\ Init!12 /\ Init!13
    /\ fmtIn \in FmtArgs
    /\ fmtOut = <<>>
    /\ last = [op |-> "init", v |-> "", id |-> "", outcome |-> ""]
    /\ Init!17 /\ Init!18 /\ Init!19 /\ Init!20 /\ Init!21 /\ Init!22 /\ Init!23

NextFmt == FmtCall

SpecFmt == InitFmt /\ [][NextFmt]_vars

-----------------------------------------------------------------------------
(* The change feed: a viewer of a table whose rows are edited, created and *)
(* removed                                                                 *)

NextFeed ==
    \/ \E v \in Solo : FetchRead(v, TRUE)
    \/ \E v \in Solo : FetchApply(v)
    \/ \E v \in Solo : Deliver(v)
    \/ \E v \in Solo, value \in FieldTexts : \E i \in 1..Len(drivers[v]) :
          UpdateField(v, i, "location", value, TRUE)
    \/ \E v \in Solo, p \in [op : {"updateField"}, id : DriverIds, failed : {FALSE}] :
          UpdateFieldResume(v, p)
    \/ \E id \in DriverIds : ForeignInsert(id)
    \/ \E id \in DriverIds : ForeignDelete(id)

SpecFeed == Init /\ [][NextFeed]_vars

-----------------------------------------------------------------------------
(* The notes of a driver: a loaded page over a driver_notes table that      *)
(* already holds some notes of the first driver                             *)

\* How many notes of the first driver the table holds at the start.
NotesSeeded == {9, 10}

InitNotes ==
    /\ Init!1 /\ Init!2 /\ Init!3 /\ Init!4
    /\ drivers = [v \in Viewers |-> IF v \in Solo THEN store ELSE <<>>]
    /\ loading = [v \in Viewers |-> v \notin Solo]
    /\ Init!7
    /\ fetch = [v \in Viewers |->
                  [phase |-> IF v \in Solo THEN "done" ELSE "unmounted",
                   failed |-> FALSE, data |-> <<>>]]
    /\ Init!9 /\ Init!10 /\ Init!11 /\ Init!12 /\ Init!13
    /\ Init!14 /\ Init!15 /\ Init!16
    /\ \E k \in NotesSeeded :
          notesTable = [i \in 1..k |-> [id |-> i, driver_id |-> "d1", body |-> <<"b">>]]
    /\ Init!18 /\ Init!19 /\ Init!20 /\ Init!21 /\ Init!22 /\ Init!23

NextNotes ==
    \/ \E v \in Solo : \E i \in 1..Len(drivers[v]) : OpenProfile(v, i, TRUE)
    \/ \E v \in Solo : \E p \in pending[v] : OpenProfileResume(v, p)
    \/ \E v \in Solo, text \in NoteTexts \cup {<<>>} : SetNewNote(v, text)
    \/ \E v \in Solo : CloseProfile(v)
    \/ \E v \in Solo : (ProfileShown(v) \/ profileDriver[v] = Null) /\ AddProfileNote(v, TRUE)
    \/ \E v \in Solo : \E p \in pending[v] : AddProfileNoteResume(v, p)

SpecNotes == InitNotes /\ [][NextNotes]_vars

-----------------------------------------------------------------------------
(* One operator from the opening of the page on, each command issued once  *)
(* the page has seen the change events of the commands before it           *)

\* Texts typed over the default of the minutes field.
ScenarioMinuteTexts == {<<"1", "0">>}

\* Viewer v has no change event to handle and no handler in flight.
Quiet(v) == feed[v] = <<>> /\ pending[v] = {}

\* The page is opened one clock step before the epoch.
InitEndToEnd ==
    /\ now = 0 - ClockStepMs
    /\ Init!2 /\ Init!3 /\ Init!4 /\ Init!5 /\ Init!6 /\ Init!7 /\ Init!8
    /\ Init!9 /\ Init!10 /\ Init!11 /\ Init!12 /\ Init!13 /\ Init!14
    /\ Init!15 /\ Init!16 /\ Init!17 /\ Init!18 /\ Init!19 /\ Init!20
    /\ Init!21 /\ Init!22 /\ Init!23

NextEndToEnd ==
    \/ ClockAdvance(ClockStepMs)
    \/ \E v \in Solo : FetchRead(v, TRUE)
    \/ \E v \in Solo : FetchApply(v)
    \/ \E v \in Solo : Deliver(v)
    \/ \E v \in Solo : \E i \in 1..Len(drivers[v]) : Quiet(v) /\ OpenReserve(v, i)
    \/ \E v \in Solo, text \in ScenarioMinuteTexts : SetReserveMinutes(v, text)
    \/ \E v \in Solo : Quiet(v) /\ ConfirmReserve(v, TRUE)
    \/ \E v \in Solo : \E p \in pending[v] : ConfirmReserveResume(v, p, TRUE)
    \/ \E v \in Solo : \E i \in 1..Len(drivers[v]) : Quiet(v) /\ ResetReserve(v, i, TRUE)
    \/ \E v \in Solo, p \in [op : {"resetReserve"}, id : DriverIds, failed : {FALSE}] :
          ResetReserveResume(v, p)

SpecEndToEnd == InitEndToEnd /\ [][NextEndToEnd]_vars

-----------------------------------------------------------------------------
(* Store calls that fail: one operator from the opening of the page on,    *)
(* every read and write of the store either succeeding or failing          *)

\* The table holds one driver; driver_notes has room for one more note.
InitErrors ==
    /\ Init!1
    /\ store = <<NewRow("d1")>>
    /\ minted = {"d1"}
    /\ Init!4 /\ Init!5 /\ Init!6 /\ Init!7
    /\ Init!8 /\ Init!9 /\ Init!10 /\ Init!11 /\ Init!12 /\ Init!13
    /\ Init!14 /\ Init!15 /\ Init!16
    /\ notesTable = [i \in 1..(MaxNotes - 1) |->
                        [id |-> i, driver_id |-> "d1", body |-> <<"b">>]]
    /\ Init!18 /\ Init!19 /\ Init!20 /\ Init!21 /\ Init!22 /\ Init!23

\* The table is reachable: no modal's overlay covers the page.
TableShown(v) == ~ModalShown(v) /\ ~ProfileShown(v)

\* The operator issues a command once the page is quiet, and a command of a
\* table row while no modal covers the table.
NextErrors ==
    \/ \E v \in Solo, ok \in BOOLEAN : FetchRead(v, ok)
    \/ \E v \in Solo : FetchApply(v)
    \/ \E v \in Solo : Deliver(v)
    \/ \E v \in Solo : \E i \in 1..Len(drivers[v]) :
          Quiet(v) /\ TableShown(v) /\ OpenReserve(v, i)
    \/ \E v \in Solo : Quiet(v) /\ SetReserveMinutes(v, <<"0">>)
    \/ \E v \in Solo : Quiet(v) /\ SetReserveNote(v, <<" ", "a", " ">>)
    \/ \E v \in Solo : Quiet(v) /\ CancelReserve(v)
    \/ \E v \in Solo, ok \in BOOLEAN : Quiet(v) /\ ConfirmReserve(v, ok)
    \/ \E v \in Solo, ok \in BOOLEAN : \E p \in pending[v] :
          ConfirmReserveResume(v, p, ok)
    \/ \E v \in Solo : \E p \in pending[v] : ConfirmReserveClose(v, p)
    \/ \E v \in Solo, ok \in BOOLEAN : \E i \in 1..Len(drivers[v]) :
          Quiet(v) /\ TableShown(v) /\ ResetReserve(v, i, ok)
    \/ \E v \in Solo, p \in [op : {"resetReserve"}, id : DriverIds, failed : BOOLEAN] :
          ResetReserveResume(v, p)
    \/ \E v \in Solo, ok \in BOOLEAN : \E i \in 1..Len(drivers[v]) :
          Quiet(v) /\ TableShown(v) /\ UpdateField(v, i, "location", <<"A">>, ok)
    \/ \E v \in Solo, p \in [op : {"updateField"}, id : DriverIds, failed : BOOLEAN] :
          UpdateFieldResume(v, p)
    \/ \E v \in Solo, ok \in BOOLEAN : \E i \in 1..Len(drivers[v]) :
          Quiet(v) /\ TableShown(v) /\ OpenProfile(v, i, ok)
    \/ \E v \in Solo : \E p \in pending[v] : OpenProfileResume(v, p)
    \/ \E v \in Solo : Quiet(v) /\ SetNewNote(v, <<" ", "a", " ">>)
    \/ \E v \in Solo : Quiet(v) /\ CloseProfile(v)
    \/ \E v \in Solo, ok \in BOOLEAN :
          Quiet(v) /\ ProfileShown(v) /\ AddProfileNote(v, ok)
    \/ \E v \in Solo : \E p \in pending[v] : AddProfileNoteResume(v, p)

SpecErrors == InitErrors /\ [][NextErrors]_vars

-----------------------------------------------------------------------------
(* Time passing over a loaded page: the clock, the ticker, and resets      *)

\* A loaded page, the fields of its reserve modal as openReserve left them.
InitTick ==
    /\ InitReserve
    /\ \A v \in Viewers : reserveMinutes[v] = <<"1", "5">> /\ reserveNote[v] = <<>>

NextTick ==
    \/ ClockAdvance(ClockStepMs)
    \/ \E v \in Solo : Tick(v)
    \/ \E v \in Solo : Deliver(v)
    \/ \E v \in Solo : \E i \in 1..Len(drivers[v]) : ResetReserve(v, i, TRUE)
    \/ \E v \in Solo, p \in [op : {"resetReserve"}, id : DriverIds, failed : {FALSE}] :
          ResetReserveResume(v, p)

SpecTick == InitTick /\ [][NextTick]_vars

-----------------------------------------------------------------------------
(* Two viewers of one table, both loaded, the reserve modal of each open   *)
(* on the first driver                                                     *)

\* The minutes each operator has in the field.
ViewerMinuteTexts == {<<"5">>, <<"1", "5">>}

\* The first driver at the start: not reserved, or reserved until one clock
\* step from now with an available time entered.
FirstReservations ==
    {[reserve_until |-> Null, reserve_started_at |-> Null, reserve_note |-> Null],
     [reserve_until |-> Iso(ClockStepMs), reserve_started_at |-> Iso(0 - ClockStepMs),
      reserve_note |-> Txt(<<"b">>), available_time |-> Txt(<<"9">>)]}

InitViewers ==
    /\ Init!1
    /\ \E r \in FirstReservations :
          store = <<Patched(NewRow("d1"), r), NewRow("d2")>>
    /\ Init!3 /\ Init!4
    /\ drivers = [v \in Viewers |-> store]
    /\ loading = [v \in Viewers |-> FALSE]
    /\ Init!7
    /\ fetch = [v \in Viewers |-> [phase |-> "done", failed |-> FALSE, data |-> <<>>]]
    /\ reserveOpen = [v \in Viewers |-> TRUE]
    /\ reserveDriver = [v \in Viewers |-> store[1]]
    /\ reserveMinutes \in [Viewers -> ViewerMinuteTexts]
    /\ Init!12 /\ Init!13 /\ Init!14 /\ Init!15 /\ Init!16 /\ Init!17
    /\ Init!18 /\ Init!19 /\ Init!20 /\ Init!21 /\ Init!22 /\ Init!23

\* Both operators work on the first driver.
NextViewers ==
    \/ \E v \in Viewers : Deliver(v)
    \/ \E v \in Viewers : ConfirmReserve(v, TRUE)
    \/ \E v \in Viewers : \E p \in pending[v] : ConfirmReserveResume(v, p, TRUE)
    \/ \E v \in Viewers, value \in FieldTexts : \E i \in 1..Len(drivers[v]) :
          drivers[v][i].id = "d1" /\ UpdateField(v, i, "location", value, TRUE)
    \/ \E v \in Viewers, p \in [op : {"updateField"}, id : DriverIds, failed : {FALSE}] :
          UpdateFieldResume(v, p)

SpecViewers == InitViewers /\ [][NextViewers]_vars

-----------------------------------------------------------------------------
(* Two viewers of one table: the first operator edits the location of the  *)
(* first driver while the others extend and reset its reservation          *)

NextMerge ==
    \/ \E v \in Viewers : Deliver(v)
    \/ \E v \in Solo, value \in FieldTexts : \E i \in 1..Len(drivers[v]) :
          drivers[v][i].id = "d1" /\ UpdateField(v, i, "location", value, TRUE)
    \/ \E v \in Solo, p \in [op : {"updateField"}, id : DriverIds, failed : {FALSE}] :
          UpdateFieldResume(v, p)
    \/ \E v \in Viewers \ Solo : ConfirmReserve(v, TRUE)
    \/ \E v \in Viewers \ Solo : \E p \in pending[v] : ConfirmReserveResume(v, p, TRUE)
    \/ \E v \in Viewers \ Solo : \E i \in 1..Len(drivers[v]) :
          drivers[v][i].id = "d1" /\ ResetReserve(v, i, TRUE)
    \/ \E v \in Viewers \ Solo,
          p \in [op : {"resetReserve"}, id : DriverIds, failed : {FALSE}] :
          ResetReserveResume(v, p)

SpecMerge == InitViewers /\ [][NextMerge]_vars

-----------------------------------------------------------------------------
(* A lossy channel: one operator edits the location of the first driver    *)
(* and extends its reservation while the countdown ticks, and the channel  *)
(* may lose change events on their way to the page                         *)

\* A loaded page at the epoch, the reserve modal open on the first driver.
InitMissed ==
    /\ InitTick
    /\ now = 0
    /\ store[2] = NewRow("d2")
    /\ \A v \in Solo : reserveDriver[v] = store[1]

NextMissed ==
    \/ \E v \in Solo : Deliver(v)
    \/ \E v \in Solo : Miss(v)
    \/ \E v \in Solo : Tick(v)
    \/ \E v \in Solo, value \in FieldTexts : \E i \in 1..Len(drivers[v]) :
          drivers[v][i].id = "d1" /\ UpdateField(v, i, "location", value, TRUE)
    \/ \E v \in Solo, p \in [op : {"updateField"}, id : DriverIds, failed : {FALSE}] :
          UpdateFieldResume(v, p)
    \/ \E v \in Solo : ConfirmReserve(v, TRUE)
    \/ \E v \in Solo : \E p \in pending[v] : ConfirmReserveResume(v, p, TRUE)

SpecMissed == InitMissed /\ [][NextMissed]_vars

-----------------------------------------------------------------------------
(* Two viewers and the notes of one driver: the first operator reads and   *)
(* writes notes in the profile modal; the other one is either about to     *)
(* reserve the first driver with a note, or has its profile open with a    *)
(* note typed                                                              *)

\* What the other operator is doing when the first one starts.
SharedModes == {"reserving", "noting"}

InitShared ==
    /\ Init!1 /\ Init!2 /\ Init!3 /\ Init!4
    /\ drivers = [v \in Viewers |-> store]
    /\ loading = [v \in Viewers |-> FALSE]
    /\ Init!7
    /\ fetch = [v \in Viewers |-> [phase |-> "done", failed |-> FALSE, data |-> <<>>]]
    /\ Init!11 /\ Init!13 /\ Init!14 /\ Init!15 /\ Init!16
    /\ \E k \in NotesSeeded :
          notesTable = [i \in 1..k |-> [id |-> i, driver_id |-> "d1", body |-> <<"b">>]]
    /\ \E mode \in SharedModes :
          LET reserving(v) == v \notin Solo /\ mode = "reserving"
              noting(v) == v \notin Solo /\ mode = "noting"
          IN  /\ reserveOpen = [v \in Viewers |-> reserving(v)]
              /\ reserveDriver = [v \in Viewers |-> IF reserving(v) THEN store[1] ELSE Null]
              /\ reserveNote = [v \in Viewers |->
                                  IF reserving(v) THEN <<" ", "a", " ">> ELSE <<>>]
              /\ profileOpen = [v \in Viewers |-> noting(v)]
              /\ profileDriver = [v \in Viewers |-> IF noting(v) THEN store[1] ELSE Null]
              /\ notes = [v \in Viewers |->
                            IF noting(v) THEN SelectNotes(notesTable, "d1") ELSE <<>>]
              /\ newNote = [v \in Viewers |-> IF noting(v) THEN <<" ", "c">> ELSE <<>>]
    /\ Init!22 /\ Init!23

\* Each operator issues a command once the earlier ones have been answered;
\* the first one looks at the profile of the first driver.
NextShared ==
    \/ \E v \in Solo : \E i \in 1..Len(drivers[v]) :
          /\ drivers[v][i].id = "d1"
          /\ pending[v] = {} /\ TableShown(v) /\ OpenProfile(v, i, TRUE)
    \/ \E v \in Solo : \E p \in pending[v] : OpenProfileResume(v, p)
    \/ \E v \in Solo : pending[v] = {} /\ SetNewNote(v, <<" ", "a", " ">>)
    \/ \E v \in Solo : pending[v] = {} /\ CloseProfile(v)
    \/ \E v \in Viewers : pending[v] = {} /\ ProfileShown(v) /\ AddProfileNote(v, TRUE)
    \/ \E v \in Viewers : \E p \in pending[v] : AddProfileNoteResume(v, p)
    \/ \E v \in Viewers \ Solo : pending[v] = {} /\ ConfirmReserve(v, TRUE)
    \/ \E v \in Viewers \ Solo : \E p \in pending[v] : ConfirmReserveResume(v, p, TRUE)
    \/ \E v \in Viewers \ Solo : \E p \in pending[v] : ConfirmReserveClose(v, p)

SpecShared == InitShared /\ [][NextShared]_vars

-----------------------------------------------------------------------------
(* The table changing under an open reserve modal: two operators have the  *)
(* modal open on the first driver, one of them with a note; each confirms  *)
(* when it pleases, and the driver may be deleted out of band              *)

NextOpenModal ==
    \/ \E v \in Viewers : Deliver(v)
    \/ \E v \in Solo : pending[v] = {} /\ SetReserveNote(v, <<" ", "a", " ">>)
    \/ \E v \in Viewers : ConfirmReserve(v, TRUE)
    \/ \E v \in Viewers : \E p \in pending[v] : ConfirmReserveResume(v, p, TRUE)
    \/ \E v \in Viewers : \E p \in pending[v] : ConfirmReserveClose(v, p)
    \/ ForeignDelete("d1")

SpecOpenModal == InitViewers /\ [][NextOpenModal]_vars

-----------------------------------------------------------------------------
(* Properties of the reserve timer *)

\* The row with the given id (rows hold each id once).
RowOf(rows, id) == CHOOSE r \in {rows[i] : i \in 1..Len(rows)} : r.id = id

\* The minutes each accepted text of the minutes field stands for.
TypedMinutes(text) ==
    CASE text = <<"5">> -> 5
      [] text = <<"1", "5">> -> 15
      [] text = <<>> -> 15
      [] text = <<" ", "5", "x">> -> 5
      [] OTHER -> 0

\* The reserve_note each text of the note field is stored as.
TypedNote(text) ==
    CASE text = <<" ", "a", " ">> -> Txt(<<"a">>)
      [] OTHER -> Null

\* confirmReserve of viewer v has just sent its update and the store took it.
JustReserved(v) ==
    last.op = "confirmReserve" /\ last.v = v /\ last.outcome = "written"

\* C1: when the snapshot's reserve_until of the driver is null or not later
\* than now, confirmReserve with m > 0 minutes writes reserve_until = now + m
\* minutes exactly.
C1_ExtendLapsedFromNow ==
    \A v \in Viewers :
        JustReserved(v) =>
            LET t == RowOf(drivers[v], last.id).reserve_until
                m == TypedMinutes(reserveMinutes[v])
            IN  (t = Null \/ t.ms <= now) =>
                    /\ m > 0
                    /\ RowOf(store, last.id).reserve_until = Iso(now + m * 60000)

\* C1 happens: an extend on a stored reserve_until that lies strictly in the past.
C1_Witness ==
    \E v \in Viewers :
        /\ JustReserved(v)
        /\ RowOf(drivers[v], last.id).reserve_until # Null
        /\ RowOf(drivers[v], last.id).reserve_until.ms < now

\* C2: when the snapshot's reserve_until of the driver is T > now,
\* confirmReserve with m > 0 minutes writes reserve_until = T + m minutes.
C2_ExtendActiveFromUntil ==
    \A v \in Viewers :
        JustReserved(v) =>
            LET t == RowOf(drivers[v], last.id).reserve_until
                m == TypedMinutes(reserveMinutes[v])
            IN  (t # Null /\ t.ms > now) =>
                    /\ m > 0
                    /\ RowOf(store, last.id).reserve_until = Iso(t.ms + m * 60000)

\* C2 happens: an extend of a running reservation, some time after the epoch.
C2_Witness ==
    \E v \in Viewers :
        /\ JustReserved(v)
        /\ RowOf(drivers[v], last.id).reserve_until # Null
        /\ RowOf(drivers[v], last.id).reserve_until.ms > now
        /\ now > 0

\* What a confirmReserve that is refused must leave alone.
pageAndStore ==
    <<now, store, minted, feed, drivers, loading, err, fetch, reserveOpen, reserveDriver,
      reserveMinutes, reserveNote, pending>>

\* The text is a decimal numeral: an optional sign, then digits only.
IsNumeral(text) ==
    LET body == IF text # <<>> /\ Head(text) \in {"-", "+"} THEN Tail(text) ELSE text
    IN  body # <<>> /\ \A i \in 1..Len(body) : IsDigit(body[i])

\* The text is a numeral of a value <= 0.
IsNonPositiveNumeral(text) ==
    /\ IsNumeral(text)
    /\ \/ Head(text) = "-"
       \/ \A i \in 1..Len(text) : text[i] \in {"0", "+"}

\* C3 as stated: for every minutes text that is non-numeric or denotes a value
\* <= 0, confirmReserve changes nothing and issues no store write.
C3_AsStated ==
    [][\A v \in Viewers :
          (/\ last'.op = "confirmReserve"
           /\ last'.v = v
           /\ (~IsNumeral(reserveMinutes[v]) \/ IsNonPositiveNumeral(reserveMinutes[v])))
          => UNCHANGED pageAndStore]_vars

\* The text, white space and one sign skipped, does not begin with a digit.
NoLeadingInteger(text) ==
    \E k \in 0..Len(text) :
        /\ \A i \in 1..k : text[i] = " "
        /\ k < Len(text) => text[k + 1] # " "
        /\ LET rest == SubSeq(text, k + 1, Len(text))
               body == IF rest # <<>> /\ rest[1] \in {"-", "+"} THEN Tail(rest) ELSE rest
           IN  body = <<>> \/ ~IsDigit(body[1])

\* The text, white space skipped, begins with an integer that is <= 0.
NonPositiveLeadingInteger(text) ==
    \E k \in 0..Len(text) :
        /\ \A i \in 1..k : text[i] = " "
        /\ k < Len(text) => text[k + 1] # " "
        /\ LET rest == SubSeq(text, k + 1, Len(text))
               body == IF rest # <<>> /\ rest[1] \in {"-", "+"} THEN Tail(rest) ELSE rest
           IN  /\ body # <<>> /\ IsDigit(body[1])
               /\ \/ rest[1] = "-"
                  \/ \A i \in 1..Len(body) :
                        (\A j \in 1..i : IsDigit(body[j])) => body[i] = "0"

\* The minutes text confirmReserve refuses: not empty, and no integer > 0 at
\* its head.
RefusedMinutes(text) ==
    text # <<>> /\ (NoLeadingInteger(text) \/ NonPositiveLeadingInteger(text))

\* C3, amended: for every non-empty minutes text that does not begin with an
\* integer > 0, confirmReserve changes nothing and issues no store write (an
\* empty field stands for 15 minutes and is written).
C3_RefusedNoChange ==
    [][\A v \in Viewers :
          (/\ last'.op = "confirmReserve"
           /\ last'.v = v
           /\ RefusedMinutes(reserveMinutes[v]))
          => UNCHANGED pageAndStore]_vars

\* C3 happens: confirmReserve has run on a refused text.
C3_Witness ==
    \E v \in Viewers :
        /\ last.op = "confirmReserve"
        /\ last.v = v
        /\ RefusedMinutes(reserveMinutes[v])

\* resetReserve of viewer v has just sent its update and the store took it.
JustReset(v) ==
    last.op = "resetReserve" /\ last.v = v /\ last.outcome = "written"

\* C4: after a successful resetReserve(id) the stored row of id has
\* reserve_until, reserve_started_at and reserve_note all null.
C4_ResetClearsAllThree ==
    \A v \in Viewers :
        JustReset(v) =>
            LET row == RowOf(store, last.id)
            IN  /\ row.reserve_until = Null
                /\ row.reserve_started_at = Null
                /\ row.reserve_note = Null

\* C4 happens: a reset of a row that held all three fields (the snapshot was in
\* step with the table, and still shows them).
C4_Witness ==
    \E v \in Viewers :
        /\ JustReset(v)
        /\ Len(feed[v]) = 1
        /\ RowOf(drivers[v], last.id).reserve_until # Null
        /\ RowOf(drivers[v], last.id).reserve_started_at # Null
        /\ RowOf(drivers[v], last.id).reserve_note # Null

\* C5: a successful extend sets reserve_started_at to the now of the extend and
\* reserve_note to the trimmed note supplied, or to null when that is empty or
\* white space; the row's earlier note does not survive.
C5_ExtendSetsStartAndNote ==
    \A v \in Viewers :
        JustReserved(v) =>
            LET row == RowOf(store, last.id)
            IN  /\ row.reserve_started_at = Iso(now)
                /\ row.reserve_note = TypedNote(reserveNote[v])

\* C5 happens: an extend with a white-space note on a row that carried a note,
\* at an instant other than the start stored before.
C5_Witness ==
    \E v \in Viewers :
        /\ JustReserved(v)
        /\ Len(feed[v]) = 1
        /\ reserveNote[v] = <<" ">>
        /\ RowOf(drivers[v], last.id).reserve_note # Null
        /\ RowOf(drivers[v], last.id).reserve_started_at # Iso(now)

\* C6: a row shows as reserved, with a remaining time > 0, exactly when its
\* reserve_until is non-null and strictly later than now; otherwise it shows
\* the not-reserved mark.
C6_ActiveIffFuture ==
    \A v \in Viewers : \A i \in 1..Len(drivers[v]) :
        LET d == drivers[v][i]
            r == RenderRow(d, now)
            future == d.reserve_until # Null /\ d.reserve_until.ms > now
        IN  /\ r.active <=> future
            /\ r.msLeft > 0 <=> future
            /\ r.label = <<"-">> <=> ~future

\* C6 happens: a row whose stored reserve_until is the present instant, still
\* stored and shown as not reserved.
C6_Witness ==
    \E v \in Viewers : \E i \in 1..Len(drivers[v]) :
        /\ drivers[v][i].reserve_until = Iso(now)
        /\ last.op = "deliver"
        /\ ~RenderRow(drivers[v][i], now).active

-----------------------------------------------------------------------------
(* Properties of fmtTimeLeft *)

\* C7: for msLeft > 0 fmtTimeLeft gives M:SS, M the whole minutes of the whole
\* seconds of msLeft (never wrapped into hours) and SS the seconds left over,
\* on two digits; 90 s gives 1:30 and 5 s gives 0:05; for msLeft <= 0 it gives
\* 0:00.
C7_MinutesColonSeconds ==
    fmtOut # <<>> =>
        IF fmtIn <= 0 THEN fmtOut = <<"0", ":", "0", "0">>
        ELSE LET n == Len(fmtOut)
                 total == fmtIn \div 1000
                 mm == SubSeq(fmtOut, 1, n - 3)
                 ss == SubSeq(fmtOut, n - 1, n)
             IN  /\ n >= 4
                 /\ fmtOut[n - 2] = ":"
                 /\ \A i \in 1..Len(mm) : IsDigit(mm[i])
                 /\ \A i \in 1..2 : IsDigit(ss[i])
                 /\ Len(mm) > 1 => mm[1] # "0"
                 /\ DigitsValue(mm) = total \div 60
                 /\ DigitsValue(ss) = total % 60
                 /\ fmtIn = 90000 => fmtOut = <<"1", ":", "3", "0">>
                 /\ fmtIn = 5000 => fmtOut = <<"0", ":", "0", "5">>

\* C7 happens: 61 minutes are shown as 61:00, not wrapped into an hour.
C7_Witness ==
    /\ last.op = "fmtTimeLeft"
    /\ fmtIn = 3660000
    /\ fmtOut = <<"6", "1", ":", "0", "0">>

-----------------------------------------------------------------------------
(* Properties of the change feed *)

Rows(rows) == {rows[i] : i \in 1..Len(rows)}

Ids(rows) == {rows[i].id : i \in 1..Len(rows)}

\* The insert and update events tried on the snapshot of viewer v: for every
\* row of the table, of the snapshot or in flight, and for a fresh row of every
\* id.
ChangeEvents(v) ==
    LET rows == Rows(store) \cup Rows(drivers[v])
                \cup {e.new : e \in {f \in Rows(feed[v]) : f.eventType # "DELETE"}}
                \cup {NewRow(id) : id \in DriverIds}
    IN  [eventType : {"INSERT", "UPDATE"}, new : rows, old : {[id |-> ""]}]

\* C8: applying an insert or update event twice in a row gives the snapshot
\* that applying it once gives.
C8_ApplyTwiceIsOnce ==
    \A v \in Viewers : \A e \in ChangeEvents(v) :
        HandleChange(HandleChange(drivers[v], e), e) = HandleChange(drivers[v], e)

\* C8 happens: the viewer's own edit has come back through the feed into a
\* snapshot of several rows, which now holds the written value.
C8_Witness ==
    \E v \in Viewers :
        /\ last.op = "deliver" /\ last.v = v /\ last.outcome = "UPDATE"
        /\ Len(drivers[v]) >= 2
        /\ last.id \in Ids(drivers[v])
        /\ RowOf(drivers[v], last.id).location = Txt(<<"A">>)

\* The realtime handler of viewer v runs on an event of the given kinds.
Delivering(v, kinds) ==
    /\ last'.op = "deliver"
    /\ last'.v = v
    /\ feed[v] # <<>>
    /\ Head(feed[v]).eventType \in kinds

\* C9: an insert or update event of an id the snapshot does not hold appends
\* the record; of an id it holds, the record at that place becomes the incoming
\* one, whole, and every other entry keeps its place and content.
C9_ReplaceInPlaceOrAppend ==
    [][\A v \in Viewers :
          Delivering(v, {"INSERT", "UPDATE"}) =>
              LET row == Head(feed[v]).new
                  before == drivers[v]
                  after == drivers'[v]
              IN  IF row.id \in Ids(before)
                  THEN /\ Len(after) = Len(before)
                       /\ \A i \in 1..Len(before) :
                             after[i] = IF before[i].id = row.id THEN row ELSE before[i]
                  ELSE after = Append(before, row)]_vars

\* C9 happens: an update has been applied to the first of several rows.
C9_Witness ==
    \E v \in Viewers :
        /\ last.op = "deliver" /\ last.v = v /\ last.outcome = "UPDATE"
        /\ Len(drivers[v]) >= 2
        /\ drivers[v][1].id = last.id
        /\ drivers[v][1].location = Txt(<<"A">>)

\* C10: a delete event of an id the snapshot holds takes exactly that record
\* out, the others keeping their order and content; of an unknown id it leaves
\* the snapshot as it is.
C10_DeleteExactlyThatRow ==
    [][\A v \in Viewers :
          Delivering(v, {"DELETE"}) =>
              LET id == Head(feed[v]).old.id
                  before == drivers[v]
                  after == drivers'[v]
              IN  IF id \in Ids(before)
                  THEN /\ Len(after) = Len(before) - 1
                       /\ after = SelectSeq(before, LAMBDA r : r.id # id)
                  ELSE after = before]_vars

\* C10 happens: a delete event has been handled by a loaded viewer that still
\* shows other rows.
C10_Witness ==
    \E v \in Viewers :
        /\ last.op = "deliver" /\ last.v = v /\ last.outcome = "DELETE"
        /\ fetch[v].phase = "done"
        /\ Len(drivers[v]) >= 2
        /\ last.id \notin Ids(drivers[v])

-----------------------------------------------------------------------------
(* Properties of the notes *)

\* The note the addProfileNote that resumes in this step had inserted.
NoteAdded(v) == (CHOOSE p \in pending[v] \ pending'[v] : TRUE).data

\* C11: the displayed list never exceeds 10 entries; when addProfileNote's
\* note arrives at a list of 10, the note becomes the first entry, the nine
\* newest of the list follow it in their order, the tenth is dropped, and the
\* table still holds the ten that were displayed and the new one.
C11_TenShownAllStored ==
    [][\A v \in Viewers :
          /\ Len(notes'[v]) <= 10
          /\ (/\ last'.op = "addProfileNoteResume"
              /\ last'.v = v
              /\ last'.outcome = "ok"
              /\ Len(notes[v]) = 10)
             => /\ Len(notes'[v]) = 10
                /\ notes'[v][1] = NoteAdded(v)
                /\ \A i \in 1..9 : notes'[v][i + 1] = notes[v][i]
                /\ Rows(notes[v]) \cup {NoteAdded(v)} \subseteq Rows(notesTable')
                /\ Cardinality(Rows(notes[v]) \cup {NoteAdded(v)}) <= Len(notesTable')]_vars

\* C11 happens: a note has been added to a list of 10; the list shows 10
\* different notes, the new one first, and the table holds an eleventh note
\* of the driver that is not shown.
C11_Witness ==
    \E v \in Viewers :
        /\ last.op = "addProfileNoteResume" /\ last.v = v /\ last.outcome = "ok"
        /\ Len(notes[v]) = 10
        /\ Cardinality(Rows(notes[v])) = 10
        /\ notes[v][1].id = Len(notesTable)
        /\ \E n \in Rows(notesTable) :
              n.driver_id = notes[v][1].driver_id /\ n \notin Rows(notes[v])

\* The text is empty or white space only.
IsBlank(text) == \A i \in 1..Len(text) : text[i] = " "

\* C14: addProfileNote with an empty or white-space body, or with no profile
\* held, makes no store call, creates no note and leaves the displayed list
\* and the input text as they are.
C14_BlankNoteIsNoOp ==
    [][\A v \in Viewers :
          (/\ last'.op = "addProfileNote"
           /\ last'.v = v
           /\ (profileDriver[v] = Null \/ IsBlank(newNote[v])))
          => UNCHANGED <<notesTable, pending, notes, newNote, store, feed, drivers,
                         err, profileOpen, profileDriver>>]_vars

\* C14 happens: addProfileNote has run on a white-space body in an open
\* profile.
C14_Witness ==
    \E v \in Viewers :
        /\ last.op = "addProfileNote" /\ last.v = v
        /\ ProfileShown(v)
        /\ newNote[v] = <<" ">>

-----------------------------------------------------------------------------
(* The reserve timer end to end *)

\* The snapshot row shows a reservation of 15 minutes that began 5 minutes
\* before now.
FiveMinutesIn(r) ==
    /\ r.reserve_started_at # Null
    /\ r.reserve_started_at.ms = now - 5 * 60000
    /\ r.reserve_until = Iso(now + 10 * 60000)

\* C12: with every write delivered back before the next command, a reserve of
\* 15 minutes at T0 on a null reserve_until stores reserve_until = T0 + 15m
\* and reserve_started_at = T0; at T0 + 5m the row shows 10:00; an extend of
\* 10 minutes then stores reserve_until = T0 + 25m; a reset stores null in all
\* three reservation fields and, once delivered, the row shows as not
\* reserved.
C12_EndToEnd ==
    [][\A v \in Viewers :
          /\ (\A i \in 1..Len(drivers[v]) :
                FiveMinutesIn(drivers[v][i]) =>
                    /\ RenderRow(drivers[v][i], now).active
                    /\ RenderRow(drivers[v][i], now).label = <<"1", "0", ":", "0", "0">>)
          /\ (last'.op = "confirmReserve" /\ last'.v = v /\ last'.outcome = "written") =>
                LET r == RowOf(drivers[v], last'.id)
                    w == RowOf(store', last'.id)
                IN  /\ (r.reserve_until = Null /\ reserveMinutes[v] = <<"1", "5">>) =>
                          /\ w.reserve_until = Iso(now + 15 * 60000)
                          /\ w.reserve_started_at = Iso(now)
                    /\ (FiveMinutesIn(r) /\ reserveMinutes[v] = <<"1", "0">>) =>
                          w.reserve_until = Iso(r.reserve_started_at.ms + 25 * 60000)
          /\ (last'.op = "resetReserve" /\ last'.v = v /\ last'.outcome = "written") =>
                LET w == RowOf(store', last'.id)
                IN  /\ w.reserve_until = Null
                    /\ w.reserve_started_at = Null
                    /\ w.reserve_note = Null
          /\ (/\ last'.op = "deliver" /\ last'.v = v /\ last'.outcome = "UPDATE"
              /\ last.op = "resetReserve") =>
                LET r == RowOf(drivers'[v], last'.id)
                IN  /\ r.reserve_until = Null
                    /\ ~RenderRow(r, now').active
                    /\ RenderRow(r, now').label = <<"-">>]_vars

\* C12 happens: the operator, 5 minutes into a reservation of 15 minutes that
\* the page shows, has extended it by 10 minutes.
C12_Witness ==
    \E v \in Viewers :
        /\ last.op = "confirmReserve" /\ last.v = v /\ last.outcome = "written"
        /\ reserveMinutes[v] = <<"1", "0">>
        /\ FiveMinutesIn(RowOf(drivers[v], last.id))
        /\ RowOf(store, last.id).reserve_until = Iso(now + 20 * 60000)
        /\ RowOf(store, last.id).reserve_started_at = Iso(now)

-----------------------------------------------------------------------------
(* Failures of the store *)

\* The steps in which a handler takes up the outcome of its store call.
Resumptions ==
    {"fetchApply", "confirmReserveResume", "confirmReserveClose", "resetReserveResume",
     "updateFieldResume", "openProfileResume", "addProfileNoteResume"}

\* C13 as stated: every handler that resumes from a store call that failed
\* leaves an error message to display.
C13_AsStated ==
    [][\A v \in Viewers :
          (last'.v = v /\ last'.op \in Resumptions /\ last'.outcome = "error")
          => err'[v] # Null]_vars

-----------------------------------------------------------------------------
(* The ticker *)

\* C15: a tick changes the tick counter and nothing else: not the store, not a
\* viewer's snapshot, not the notes; nor does the passing of time clear a
\* reserve_until that has lapsed.
C15_TickChangesOnlyTheTicker ==
    [][/\ (last'.op = "tick") =>
            /\ tick' # tick
            /\ UNCHANGED <<now, store, minted, feed, drivers, loading, err, fetch,
                           reserveOpen, reserveDriver, reserveMinutes, reserveNote,
                           pending, notesTable, profileOpen, profileDriver, notes,
                           newNote>>
       /\ (last'.op = "clock") => UNCHANGED <<store, drivers, notesTable, notes>>]_vars

\* C15 happens: the ticker has run on a page that shows a reservation lapsed
\* for some time; the table and the snapshot still hold its reserve_until.
C15_Witness ==
    \E v \in Viewers : \E i \in 1..Len(drivers[v]) :
        /\ last.op = "tick" /\ last.v = v
        /\ tick[v] = 2
        /\ drivers[v][i].reserve_until # Null
        /\ drivers[v][i].reserve_until.ms < now
        /\ RowOf(store, drivers[v][i].id).reserve_until = drivers[v][i].reserve_until

-----------------------------------------------------------------------------
(* The initial load against the change feed *)

\* C20 as stated: once the initial load has been applied and every change
\* event emitted has been handled, the viewer's snapshot equals the table.
C20_AsStated ==
    \A v \in Viewers :
        (fetch[v].phase = "done" /\ ~fetch[v].failed /\ feed[v] = <<>>)
        => drivers[v] = store

-----------------------------------------------------------------------------
(* Several viewers writing to one driver *)

\* The viewers that have a write to driver id in flight: the store took it,
\* the handler has not resumed yet.
Writers(id) ==
    {v \in Viewers : \E p \in pending[v] :
        p.op \in {"confirmReserve", "resetReserve", "updateField"}
        /\ p.id = id /\ ~p.failed}

\* C16: whatever the order of the conflicting writes of the viewers to one
\* driver, once every change event has been delivered to every loaded viewer,
\* the snapshot of each viewer equals the stored table.
C16_ViewersConverge ==
    (\A v \in Viewers : feed[v] = <<>>) =>
        \A v \in Viewers : drivers[v] = store

\* Both viewers have written to the first driver, every event of the two
\* writes has been delivered, and the snapshots are the stored table.
C16_Witness ==
    /\ Writers("d1") = Viewers
    /\ \A v \in Viewers : feed[v] = <<>> /\ drivers[v] = store
    /\ last.op = "deliver"

-----------------------------------------------------------------------------
(* Writes and the snapshot of the viewer that issued them *)

\* The steps of confirmReserve, resetReserve and updateField.
WriteSteps ==
    {"confirmReserve", "confirmReserveResume", "confirmReserveClose",
     "resetReserve", "resetReserveResume", "updateField", "updateFieldResume"}

\* C17: no step of confirmReserve, resetReserve or updateField changes the
\* driver snapshot of the viewer that issued it, whether the store took the
\* write or refused it; a snapshot changes only when the result of the initial
\* fetch or a change event is applied.
C17_NoOptimisticUpdate ==
    [][/\ (last' # last /\ last'.op \in WriteSteps) => drivers' = drivers
       /\ \A v \in Viewers :
             drivers'[v] # drivers[v] =>
                 last'.v = v /\ last'.op \in {"fetchApply", "deliver"}]_vars

\* resetReserve has run to its end, the store has cleared the reservation,
\* and the snapshot of the viewer still shows it.
C17_Witness ==
    /\ last.op = "resetReserveResume" /\ last.outcome = "ok"
    /\ RowOf(store, last.id).reserve_until = Null
    /\ RowOf(drivers[last.v], last.id).reserve_until # Null

-----------------------------------------------------------------------------
(* Two extensions from the same snapshot value *)

\* The minutes viewer v has in the field of the reserve modal.
MinutesOf(v) == ParseInt(MinutesText(reserveMinutes[v])).val

\* The viewers whose extension of driver id the store has taken and whose
\* handler has not resumed.
Extenders(id) ==
    {v \in Viewers : \E p \in pending[v] :
        p.op = "confirmReserve" /\ p.id = id /\ ~p.failed}

\* C18: an extension is computed from the reserve_until T of the snapshot of
\* the viewer that issues it: when the snapshot shows an active reservation
\* until T, the stored reserve_until becomes T plus the minutes of that write,
\* whatever another viewer has written to the store since; two viewers that
\* hold the same T thus leave T + m of the later write, not T + m1 + m2, and
\* the stored reserve_until may decrease.
C18_LaterExtensionOverwrites ==
    [][(/\ last' # last
        /\ last'.op = "confirmReserve" /\ last'.outcome = "written"
        /\ Truthy(RowOf(drivers[last'.v], last'.id).reserve_until)
        /\ getTime(RowOf(drivers[last'.v], last'.id).reserve_until) >= now)
       => RowOf(store', last'.id).reserve_until =
              toISOString(getTime(RowOf(drivers[last'.v], last'.id).reserve_until)
                          + MinutesOf(last'.v) * MinuteMs)]_vars

\* Both viewers held reserve_until = T for the first driver and both have
\* extended it before either saw the other's change event: the store holds
\* T + m of the later write, which is earlier than what the first write had
\* stored.
C18_Witness ==
    /\ last.op = "confirmReserve" /\ last.outcome = "written" /\ last.id = "d1"
    /\ Extenders("d1") = Viewers
    /\ \A v \in Viewers :
          RowOf(drivers[v], "d1").reserve_until = toISOString(ClockStepMs)
    /\ RowOf(store, "d1").reserve_until =
          toISOString(ClockStepMs + MinutesOf(last.v) * MinuteMs)
    /\ \E w \in Viewers \ {last.v} :
          /\ MinutesOf(w) > MinutesOf(last.v)
          /\ \E k \in 1..Len(feed[last.v]) :
                feed[last.v][k].new.reserve_until =
                    toISOString(ClockStepMs + MinutesOf(w) * MinuteMs)

-----------------------------------------------------------------------------
(* Writes of different columns of one driver *)

\* The columns of the drivers table.
Columns == DOMAIN NewRow("d1")

\* The stored rows agree before and after the step on every column outside
\* cols of driver id, and on every column of every other driver.
OnlyColumnsChange(id, cols) ==
    /\ Len(store') = Len(store)
    /\ \A i \in 1..Len(store) :
          \A f \in Columns :
              store'[i][f] # store[i][f] => store[i].id = id /\ f \in cols

\* C19: the store merges writes column by column.  An accepted updateField
\* of location changes no other column of the driver (the three reservation
\* columns included) and stores null for an empty value; an accepted extend
\* or reset changes only the three reservation columns, so location and
\* available_time stay as they were.  A location edit by one viewer and an
\* extend by another are therefore both in the stored row afterwards, in
\* whichever order the store took them.
C19_WritesMergeByColumn ==
    [][/\ (last' # last /\ last'.op = "updateField" /\ last'.outcome = "written")
           => /\ OnlyColumnsChange(last'.id, {"location"})
              /\ RowOf(store', last'.id).location # Txt(<<>>)
       /\ (/\ last' # last
           /\ last'.op \in {"confirmReserve", "resetReserve"}
           /\ last'.outcome = "written")
           => OnlyColumnsChange(last'.id,
                  {"reserve_until", "reserve_started_at", "reserve_note"})]_vars

\* The first viewer has edited the location of the first driver and another
\* has then extended its reservation from a snapshot that does not show the
\* edit; the stored row has the new location, the available time as it was
\* and the extended reservation.
C19_Witness ==
    /\ last.op = "confirmReserve" /\ last.outcome = "written" /\ last.id = "d1"
    /\ \E v \in Viewers \ {last.v} : \E p \in pending[v] :
          p.op = "updateField" /\ p.id = "d1" /\ ~p.failed
    /\ RowOf(drivers[last.v], "d1").location = Null
    /\ RowOf(store, "d1").location = Txt(<<"A">>)
    /\ RowOf(store, "d1").available_time = Txt(<<"9">>)
    /\ RowOf(store, "d1").reserve_until =
          toISOString(ClockStepMs + MinutesOf(last.v) * MinuteMs)

-----------------------------------------------------------------------------
(* A change event that never arrives *)

\* C21: a change event of driver X that the channel lost is not made up for
\* by anything on the page: ticks and the commands of the operator leave the
\* snapshot as it is, only the feed (and the initial load) write to it; and
\* once the next INSERT or UPDATE event of X is delivered, the record of X
\* in the snapshot is the row that event carries, in every column, whatever
\* the lost event had changed.
C21_NextEventRepairsTheRow ==
    [][/\ last'.op \notin {"deliver", "fetchApply"} => drivers' = drivers
       /\ (last'.op = "deliver" /\ last'.outcome \in {"INSERT", "UPDATE"})
           => RowOf(drivers'[last'.v], last'.id) = Head(feed[last'.v]).new]_vars

\* The channel lost the event of a location edit of a driver; the countdown
\* has ticked since, the operator has extended the reservation, and the
\* event of the extension has been delivered: the record in the snapshot
\* has the location of the lost event and is the stored row again.
C21_Witness ==
    /\ last.op = "deliver" /\ last.outcome = "UPDATE"
    /\ \E e \in missed[last.v] :
          /\ e.eventType = "UPDATE" /\ e.new.id = last.id
          /\ e.new.location = Txt(<<"A">>)
          /\ e.new.reserve_until # RowOf(store, last.id).reserve_until
    /\ last.v \in Extenders(last.id)
    /\ tick[last.v] > 0
    /\ feed[last.v] = <<>>
    /\ RowOf(drivers[last.v], last.id).location = Txt(<<"A">>)
    /\ RowOf(drivers[last.v], last.id) = RowOf(store, last.id)

-----------------------------------------------------------------------------
(* The notes shown and the notes stored *)

\* No request of any viewer is in flight.
Settled == \A w \in Viewers : pending[w] = {}

\* C22 (as stated, taken where no request is in flight): while a profile is
\* open, the list shown is the ten most recent stored notes of its driver,
\* newest first, also after another viewer has added a note for that driver
\* from its profile or with a reservation.
C22_AsStated ==
    \A v \in Viewers :
        (ProfileShown(v) /\ Settled)
            => notes[v] = SelectNotes(notesTable, profileDriver[v].id)

\* C23 (as stated): every note of the list shown belongs to the driver whose
\* profile is open, however openProfile and addProfileNote interleave with
\* the answers of the store.
C23_AsStated ==
    \A v \in Viewers :
        ProfileShown(v) =>
            \A i \in 1..Len(notes[v]) : notes[v][i].driver_id = profileDriver[v].id

-----------------------------------------------------------------------------
(* The notes table only grows *)

\* The steps that may add a row to driver_notes.
NoteInserts == {"confirmReserveResume", "addProfileNote"}

\* C24: the rows of driver_notes are never changed or removed, each step
\* adds at most one row at the end, and only a note insert does.  The step
\* of confirmReserve that follows an accepted update adds exactly one row,
\* for the driver of the modal and with the trimmed text of the note field,
\* when that text is not blank (and the store takes the insert); no step of
\* confirmReserve adds a row when the text is blank, when the minutes were
\* refused or when the update failed; no step of resetReserve adds or removes
\* a row.
C24_NotesAppendOnly ==
    [][/\ Len(notesTable') \in {Len(notesTable), Len(notesTable) + 1}
       /\ SubSeq(notesTable', 1, Len(notesTable)) = notesTable
       /\ notesTable' # notesTable => last'.op \in NoteInserts
       /\ (last'.op = "confirmReserveResume" /\ last'.outcome = "noted")
           => /\ ~IsBlank(reserveNote[last'.v])
              /\ notesTable' = Append(notesTable,
                     [id |-> Len(notesTable) + 1,
                      driver_id |-> reserveDriver[last'.v].id,
                      body |-> Trim(reserveNote[last'.v])])
       /\ (/\ last'.op \in {"confirmReserve", "confirmReserveResume", "confirmReserveClose"}
           /\ notesTable' # notesTable)
           => /\ last'.op = "confirmReserveResume" /\ last'.outcome = "noted"
              /\ MinutesAccepted(reserveMinutes[last'.v])
              /\ \E p \in pending[last'.v] :
                    p.op = "confirmReserve" /\ p.id = last'.id /\ ~p.failed
       /\ (last'.op = "confirmReserveResume" /\ last'.outcome = "ok")
           => IsBlank(reserveNote[last'.v])]_vars

\* confirmReserve has filed the note of an accepted reservation: the last row
\* of driver_notes is the trimmed note, for the reserved driver.
C24_Witness ==
    /\ last.op = "confirmReserveResume" /\ last.outcome = "noted"
    /\ reserveNote[last.v] = <<" ", "a", " ">>
    /\ notesTable[Len(notesTable)] =
          [id |-> Len(notesTable), driver_id |-> last.id, body |-> <<"a">>]
    /\ RowOf(store, last.id).reserve_note = Txt(<<"a">>)

-----------------------------------------------------------------------------
(* One record per driver *)

\* C25: the rows the initial load fetches having different ids, no two
\* records of a snapshot have the same id, whatever insert, update and delete
\* events have been applied to it: inserts of an id it already holds and
\* events of ids it does not hold included.
C25_OneRecordPerId ==
    \A v \in Viewers :
        \A i, j \in 1..Len(drivers[v]) :
            drivers[v][i].id = drivers[v][j].id => i = j

\* The insert event of a driver has been applied to a loaded snapshot that
\* held the driver already (the operator had edited that row before: the
\* event of the edit is next in the feed), and the snapshot has one record
\* for each of its three drivers.
C25_Witness ==
    \E v \in Viewers :
        /\ last.op = "deliver" /\ last.v = v /\ last.outcome = "INSERT"
        /\ fetch[v].phase = "done"
        /\ feed[v] # <<>>
        /\ Head(feed[v]).eventType = "UPDATE"
        /\ Head(feed[v]).new.id = last.id
        /\ Len(drivers[v]) = 3
        /\ Ids(drivers[v]) = DriverIds

-----------------------------------------------------------------------------
(* The snapshot moving under an open reserve modal *)

\* C26: confirmReserve works on the record the snapshot holds for the driver
\* of the modal when it is called, not on the row openReserve captured: the
\* reserve_until it writes is computed from that record, so change events
\* applied while the modal was open count; and when a delete event has taken
\* the driver out of the snapshot, confirmReserve writes nothing to the store
\* and files no note.
C26_BaseFromSnapshot ==
    [][\A v \in Viewers :
          (last'.op = "confirmReserve" /\ last'.v = v
           /\ MinutesAccepted(reserveMinutes[v]))
          => IF reserveDriver[v].id \in Ids(drivers[v])
             THEN /\ last'.outcome = "written"
                  /\ Ids(store') = Ids(store)
                  /\ reserveDriver[v].id \in Ids(store) =>
                        RowOf(store', reserveDriver[v].id).reserve_until =
                            toISOString(NewUntil(RowOf(drivers[v], reserveDriver[v].id),
                                                 now, MinutesOf(v)))
             ELSE /\ last'.outcome = "notarget"
                  /\ UNCHANGED <<store, feed, pending, notesTable>>]_vars

\* An extension by the other operator was applied to the snapshot while the
\* modal was open, and confirmReserve has then written a reserve_until that
\* starts from it, not from the row the modal had captured.
C26_Witness ==
    \E v \in Viewers :
        /\ last.op = "confirmReserve" /\ last.v = v /\ last.outcome = "written"
        /\ Truthy(RowOf(drivers[v], last.id).reserve_until)
        /\ RowOf(drivers[v], last.id).reserve_until # reserveDriver[v].reserve_until
        /\ RowOf(store, last.id).reserve_until =
              toISOString(getTime(RowOf(drivers[v], last.id).reserve_until)
                          + MinutesOf(v) * MinuteMs)
        /\ RowOf(store, last.id).reserve_until #
              toISOString(NewUntil(reserveDriver[v], now, MinutesOf(v)))

\* The driver of the modal was deleted and the delete event applied; the
\* operator, a note typed, has confirmed: nothing is in flight, the table of
\* notes is empty.
C26_DeletedUnderTheModal ==
    \E v \in Viewers :
        /\ last.op = "confirmReserve" /\ last.v = v /\ last.outcome = "notarget"
        /\ ~IsBlank(reserveNote[v])
        /\ pending[v] = {}
        /\ notesTable = <<>>

=============================================================================
